---------------------------- MODULE Spec2Model ----------------------------
(***************************************************************************)
(* A model of the Compilation manager (source/compilation/Compilation.cpp) *)
(* and of the Scope / lookup engine (source/symbols/Scope.cpp).            *)
(*                                                                         *)
(* Symbols live in an arena: `sym` is the sequence of all symbols ever     *)
(* emplaced, a symbol's handle is its position in it, 0 is the null        *)
(* pointer.  `scope` holds the Scope part of the symbols that are scopes.  *)
(***************************************************************************)
EXTENDS Integers, Sequences, FiniteSets, TLC

\* ------------------------------------------------------------------ bounds
\* The number of state-changing calls (addSyntaxTree, addDefinition) of a run.
MaxOps == 2

\* The number of diagnostics a run records with addDiag.
MaxDiags == 3

\* The width in bits of the unsigned in-scope indices (uint32_t in the code; no
\* run of the model comes near the wrap-around of either width).
IndexBits == 16

\* SVInt::BITWIDTH_BITS, the bits of a key of the vector type cache that hold the
\* width, and the bits of the integral flags above them; scaled down together
\* from the 32 bits of the key.
BITWIDTH_BITS == 3

FlagBits == 4

\* ------------------------------------------------------------ basic values
Null == 0

\* Names are strings; std::string_view's operator< is the lexicographic order,
\* given here by the rank of each name of the model.
Names == {"A", "B"}

NameRank(n) == CASE n = "" -> 0 [] n = "A" -> 1 [] n = "B" -> 2 [] n = "C" -> 3
                 [] n = "foo" -> 4 [] n = "p" -> 5 [] n = "q" -> 6
                 [] n = "x" -> 7 [] n = "y" -> 8 [] OTHER -> 9

NameLess(a, b) == NameRank(a) < NameRank(b)

Range(s) == {s[i] : i \in DOMAIN s}

\* All the orders in which a hash table holding the keys S may be iterated.
Orderings(S) ==
    {s \in [1..Cardinality(S) -> S] : \A i, j \in 1..Cardinality(S) : i # j => s[i] # s[j]}

\* F of the value of x: a local variable, computed once and read many times.
Bind(x, F(_)) == CHOOSE r \in {F(v) : v \in {x}} : TRUE

\* A finite map as a function; find / emplace of the hash maps of the code.
EmptyMap == [k \in {} |-> Null]

MapFind(map, k) == IF k \in DOMAIN map THEN map[k] ELSE Null

\* An emplace that overwrites: the last value given for a key stays.
MapEmplaceOverwriting(map, k, v) == (k :> v) @@ map

\* emplace never overwrites an entry that is already there.
MapEmplace(map, k, v) == IF k \in DOMAIN map THEN map ELSE map @@ (k :> v)

VARIABLES
    sym,                    \* the arena: Seq of symbols
    scope,                  \* symbol handle -> the Scope members of that symbol
    deferredData,           \* Compilation::deferredData, the pool of DeferredMemberData
    importData,             \* Compilation::importData, the pool of wildcard import lists
    finalized,
    finalizing,
    sourceManager,
    compilationUnits,
    syntaxTrees,
    definitionMap,
    packageMap,
    globalInstantiations,
    defaultNetTypeMap,
    unconnectedDriveMap,
    timeScaleDirectiveMap,
    cachedParseDiagnostics,
    topInstances,           \* root->topInstances
    rootCompilationUnits,   \* root->compilationUnits
    registered,             \* history: the definitions registered before the first getRoot
    pair,                   \* two more compilations, for what holds of two runs
    added,                  \* history: the syntax handed to Scope::addMembers, in order
    diagMap,                \* (code, location) -> [diagList, definitionIndex]
    numErrors,
    errorLimit,             \* options.errorLimit
    cachedSemanticDiagnostics,
    cachedAllDiagnostics,
    visits,                 \* history: the runs of the DiagnosticVisitor so far
    vectorTypeCache,        \* key -> the handle of the interned packed vector type
    frames,                 \* the getRoot calls in progress, the innermost last
    prevParse,              \* history: what getParseDiagnostics returned last
    last                    \* the last call made and what it returned

vars == <<sym, scope, deferredData, importData, finalized, finalizing, sourceManager,
          compilationUnits, syntaxTrees, definitionMap, packageMap, globalInstantiations,
          defaultNetTypeMap, unconnectedDriveMap, timeScaleDirectiveMap,
          cachedParseDiagnostics, topInstances, rootCompilationUnits, registered, pair,
          added, diagMap, numErrors, errorLimit, cachedSemanticDiagnostics,
          cachedAllDiagnostics, visits, vectorTypeCache, frames, prevParse, last>>

\* The diagnostic store of the compilation, with the history of the visitor.
DiagnosticState ==
    <<diagMap, numErrors, errorLimit, cachedSemanticDiagnostics, cachedAllDiagnostics,
      visits>>

\* ---------------------------------------------------------------- symbols
\* The fields of Symbol and of the subclasses the model needs.  A field a kind
\* does not have keeps its blank value.
BlankSymbol ==
    [kind |-> "Unknown", name |-> "", parentScope |-> Null, nextInScope |-> Null,
     indexInScope |-> 0,
     definitionKind |-> "None", parameters |-> <<>>,   \* DefinitionSymbol
     definition |-> Null,                              \* InstanceSymbol
     wrapped |-> Null,                                 \* TransparentMemberSymbol
     type |-> Null,                                    \* LazyType: the resolved type
     package |-> "", importName |-> "",                \* Wildcard / ExplicitImport
     typeSyntax |-> "None", enumValues |-> <<>>,       \* LazyType of a value symbol
     isInstantiated |-> TRUE,                          \* GenerateBlockSymbol
     range |-> <<>>]                                   \* PackedArrayType: left, right

\* The members of Scope.  The name map is name -> handle.
BlankScope ==
    [firstMember |-> Null, lastMember |-> Null, nameMap |-> EmptyMap,
     deferredMemberIndex |-> Null, importDataIndex |-> Null]

\* The part of the state the Scope code works on, passed through its operators.
Heap == [sym |-> sym, scope |-> scope, deferredData |-> deferredData,
         importData |-> importData]

\* compilation.emplace<T>(...): the new symbol's handle is the next free one.
NextHandle(h) == Len(h.sym) + 1

Emplace(h, s) == [h EXCEPT !.sym = Append(@, s)]

\* A symbol that is a scope gets its Scope base constructed with it.
EmplaceScope(h, s) ==
    [h EXCEPT !.sym = Append(@, s), !.scope = @ @@ (NextHandle(h) :> BlankScope)]


\* ------------------------------------------------- Scope: member insertion
\* Compilation::getOrAddDeferredData, reached through Scope::getOrAddDeferredData:
\* a scope without deferred data gets a fresh entry of the pool.
BlankDeferredData == [members |-> <<>>, transparentTypes |-> <<>>, statement |-> Null]

GetOrAddDeferredData(h, s) ==
    IF h.scope[s].deferredMemberIndex = Null
    THEN [h EXCEPT !.deferredData = Append(@, BlankDeferredData),
                   !.scope[s].deferredMemberIndex = Len(h.deferredData) + 1]
    ELSE h

\* DeferredMemberData::registerTransparentType(insertion, type); needs the scope's
\* deferred data to be there.  `owner` stands for the LazyType: the symbol it is the
\* declared type of.
RegisterTransparentType(h, s, insertion, owner) ==
    [h EXCEPT !.deferredData[h.scope[s].deferredMemberIndex].transparentTypes =
                  Append(@, [insertAt |-> insertion, type |-> owner])]

\* DeferredMemberData::addMember(member, insertionPoint)
DeferredAddMember(h, s, node, insertionPoint) ==
    [h EXCEPT !.deferredData[h.scope[s].deferredMemberIndex].members =
                  Append(@, [node |-> node, insertionPoint |-> insertionPoint])]

\* Scope::insertMember(member, at).  The two ASSERTs are its precondition.
InsertMemberPre(h, member) ==
    h.sym[member].parentScope = Null /\ h.sym[member].nextInScope = Null

\* An insertMember that gives every member spliced after another the next index.
InsertMemberCounting(h, s, member, at) ==
    LET sc    == h.scope[s]
        index == IF at = Null THEN 1
                 ELSE h.sym[at].indexInScope + 1
        next  == IF at = Null THEN sc.firstMember ELSE h.sym[at].nextInScope
        sym1  == [h.sym EXCEPT ![member].indexInScope = index,
                               ![member].nextInScope = next,
                               ![member].parentScope = s]
        sym2  == IF at = Null THEN sym1 ELSE [sym1 EXCEPT ![at].nextInScope = member]
        name  == h.sym[member].name
    IN  [h EXCEPT
            !.sym = sym2,
            !.scope[s] =
                [sc EXCEPT
                    !.firstMember = IF at = Null THEN member ELSE @,
                    !.lastMember  = IF next = Null THEN member ELSE @,
                    !.nameMap     = IF name # "" THEN MapEmplace(@, name, member) ELSE @]]

\* An insertMember that takes every member it inserts for the last of the scope.
InsertMemberAsLast(h, s, member, at) ==
    LET sc    == h.scope[s]
        index == IF at = Null THEN 1
                 ELSE h.sym[at].indexInScope + (IF at = sc.lastMember THEN 1 ELSE 0)
        next  == IF at = Null THEN sc.firstMember ELSE h.sym[at].nextInScope
        sym1  == [h.sym EXCEPT ![member].indexInScope = index,
                               ![member].nextInScope = next,
                               ![member].parentScope = s]
        sym2  == IF at = Null THEN sym1 ELSE [sym1 EXCEPT ![at].nextInScope = member]
        name  == h.sym[member].name
    IN  [h EXCEPT
            !.sym = sym2,
            !.scope[s] =
                [sc EXCEPT
                    !.firstMember = IF at = Null THEN member ELSE @,
                    !.lastMember  = member,
                    !.nameMap     = IF name # "" THEN MapEmplace(@, name, member) ELSE @]]

InsertMember(h, s, member, at) ==
    LET sc    == h.scope[s]
        index == IF at = Null THEN 1
                 ELSE h.sym[at].indexInScope + (IF at = sc.lastMember THEN 1 ELSE 0)
        next  == IF at = Null THEN sc.firstMember ELSE h.sym[at].nextInScope
        sym1  == [h.sym EXCEPT ![member].indexInScope = index,
                               ![member].nextInScope = next,
                               ![member].parentScope = s]
        sym2  == IF at = Null THEN sym1 ELSE [sym1 EXCEPT ![at].nextInScope = member]
        name  == h.sym[member].name
    IN  [h EXCEPT
            !.sym = sym2,
            !.scope[s] =
                [sc EXCEPT
                    !.firstMember = IF at = Null THEN member ELSE @,
                    !.lastMember  = IF next = Null THEN member ELSE @,
                    !.nameMap     = IF name # "" THEN MapEmplace(@, name, member) ELSE @]]

\* The kinds of symbol that expose a LazyType in Scope::addMember.
HasLazyType(kind) == kind \in {"Variable", "FormalArgument", "Subroutine", "Parameter"}

\* An addMember that puts the member in front of the others.
AddMemberInFront(h, s, member) ==
    LET m  == h.sym[member]
        h1 == IF HasLazyType(m.kind) /\ m.typeSyntax = "EnumType"
              THEN RegisterTransparentType(GetOrAddDeferredData(h, s), s,
                                           h.scope[s].lastMember, member)
              ELSE h
    IN  InsertMember(h1, s, member, Null)

\* Scope::addMember(symbol)
AddMember(h, s, member) ==
    LET m  == h.sym[member]
        h1 == IF HasLazyType(m.kind) /\ m.typeSyntax = "EnumType"
              THEN RegisterTransparentType(GetOrAddDeferredData(h, s), s,
                                           h.scope[s].lastMember, member)
              ELSE h
    IN  InsertMember(h1, s, member, h1.scope[s].lastMember)

\* Scope::addDeferredMember(member)
AddDeferredMember(h, s, node) ==
    LET h1 == GetOrAddDeferredData(h, s)
    IN  DeferredAddMember(h1, s, node, h1.scope[s].lastMember)

\* The sibling chain of scope s, from firstMember along nextInScope.
RECURSIVE ChainFrom(_, _, _)
ChainFrom(symtab, m, fuel) ==
    IF m = Null \/ fuel = 0 THEN <<>>
    ELSE <<m>> \o ChainFrom(symtab, symtab[m].nextInScope, fuel - 1)

Chain(h, s) == ChainFrom(h.sym, h.scope[s].firstMember, Len(h.sym))

Members(s) == Chain(Heap, s)


\* ------------------------------------------------------------ Compilation
\* Compilation::root, made by the constructor: the first symbol of the arena.
Root == 1

RootSymbol == [BlankSymbol EXCEPT !.kind = "Root"]

\* The syntax trees handed to addSyntaxTree.  A tree has its source manager (1 or
\* 2, the handles of two SourceManager objects), its per-declaration metadata, the
\* names it instantiates, its top-level members and its parse diagnostics.  An
\* optional (a time scale, a cached list) is the empty sequence for nullopt.
ModuleDecl(n, k, ps) ==
    [kind |-> "ModuleDeclaration", name |-> n, definitionKind |-> k, parameters |-> ps]

Trees ==
    { [id |-> "t1", sourceManager |-> 1,
       metadata |-> << [decl |-> "A", defaultNetType |-> "WireKeyword",
                        unconnectedDrive |-> "Pull1Keyword", timeScale |-> <<"1ns", "1ps">>] >>,
       globalInstantiations |-> {"B"},
       members |-> << ModuleDecl("A", "Module", <<TRUE>>) >>,
       diagnostics |-> << [code |-> "ExpectedToken", location |-> 2] >>],
      [id |-> "t2", sourceManager |-> 1,
       metadata |-> <<>>,
       globalInstantiations |-> {},
       members |-> <<>>,
       diagnostics |-> << [code |-> "ExpectedToken", location |-> 1] >>],
      [id |-> "t3", sourceManager |-> 2,
       metadata |-> << [decl |-> "B", defaultNetType |-> "NoneKeyword",
                        unconnectedDrive |-> "Unknown", timeScale |-> <<>>] >>,
       globalInstantiations |-> {"A"},
       members |-> <<>>,
       diagnostics |-> <<>>] }

\* The definitions handed to addDefinition: name, kind, and for each parameter
\* whether it has a default.
Decls ==
    { ModuleDecl("A", "Module", <<TRUE>>),
      ModuleDecl("A", "Module", <<TRUE, FALSE>>),
      ModuleDecl("B", "Module", <<>>),
      ModuleDecl("B", "Interface", <<TRUE>>) }

DefinitionSymbol(decl, parent) ==
    [BlankSymbol EXCEPT !.kind = "Definition", !.name = decl.name,
                        !.definitionKind = decl.definitionKind,
                        !.parameters = decl.parameters,
                        !.parentScope = parent]

\* The handles of the definitions of an arena.
Definitions(symtab) == {i \in DOMAIN symtab : symtab[i].kind = "Definition"}

\* Compilation::getNetType(kind): the net type of a keyword, the <error> net type else.
KnownNetTypes == {"WireKeyword", "WAndKeyword", "WOrKeyword", "TriKeyword",
                  "TriAndKeyword", "TriOrKeyword", "Tri0Keyword", "Tri1Keyword",
                  "TriRegKeyword", "Supply0Keyword", "Supply1Keyword", "UWireKeyword"}

GetNetType(kind) == IF kind \in KnownNetTypes THEN kind ELSE "Unknown"

\* The key scope of Compilation::addDefinition: a definition of a compilation unit
\* is keyed under the root.
DefinitionKeyScopeNoRekey(symtab, d) == symtab[d].parentScope

DefinitionKeyScope(symtab, d) ==
    IF symtab[symtab[d].parentScope].kind = "CompilationUnit"
    THEN Root
    ELSE symtab[d].parentScope

\* Compilation::addDefinition(definition), on the definition map
EmplaceDefinition(symtab, map, d) ==
    MapEmplace(map, <<symtab[d].name, DefinitionKeyScope(symtab, d)>>, d)

\* Scope::addMembers(syntax) of a ModuleDeclaration (the only kind of member the
\* trees of the model have): the definition is made in scope s and registered.
\* Yields the heap and the definition map.
RECURSIVE AddMembersAll(_, _, _, _)
AddMembersAll(h, map, s, members) ==
    IF members = <<>> THEN [heap |-> h, definitionMap |-> map]
    ELSE LET d  == NextHandle(h)
             h1 == Emplace(h, DefinitionSymbol(Head(members), s))
         IN  AddMembersAll(h1, EmplaceDefinition(h1.sym, map, d), s, Tail(members))

\* The metadata loop of addSyntaxTree; emplace keeps the first entry of a declaration.
RECURSIVE MetadataAll(_, _, _)
MetadataAll(maps, tree, metadata) ==
    IF metadata = <<>> THEN maps
    ELSE LET meta == Head(metadata)
             decl == <<tree.id, meta.decl>>
             m1   == [maps EXCEPT !.defaultNetType =
                          MapEmplace(@, decl, GetNetType(meta.defaultNetType))]
             m2   == CASE meta.unconnectedDrive = "Pull0Keyword" ->
                              [m1 EXCEPT !.unconnectedDrive = MapEmplace(@, decl, "Pull0")]
                       [] meta.unconnectedDrive = "Pull1Keyword" ->
                              [m1 EXCEPT !.unconnectedDrive = MapEmplace(@, decl, "Pull1")]
                       [] OTHER -> m1
             m3   == IF meta.timeScale # <<>>
                     THEN [m2 EXCEPT !.timeScale = MapEmplace(@, decl, meta.timeScale)]
                     ELSE m2
         IN  MetadataAll(m3, tree, Tail(metadata))

\* What a call returns: the call, its argument, the error it threw ("" if none)
\* and its result.
Call(op, arg, err, ret) == [op |-> op, arg |-> arg, err |-> err, ret |-> ret]

\* The two throws of addSyntaxTree.
AddSyntaxTreeErrorNoFinalizedCheck(tree) ==
    IF sourceManager # Null /\ tree.sourceManager # sourceManager
    THEN "All syntax trees added to the compilation must use the same source manager"
    ELSE ""

AddSyntaxTreeError(tree) ==
    IF finalized THEN "The compilation has already been finalized"
    ELSE IF sourceManager # Null /\ tree.sourceManager # sourceManager
    THEN "All syntax trees added to the compilation must use the same source manager"
    ELSE ""

\* The top-level members of a list of trees.
RECURSIVE TreeMembers(_)
TreeMembers(trees) ==
    IF trees = <<>> THEN <<>> ELSE Head(trees).members \o TreeMembers(Tail(trees))

\* The state-changing calls (addSyntaxTree, addDefinition) made so far, counted by
\* what they left: a tree each, and a definition that is no tree's member each.
OpsDone ==
    Len(syntaxTrees) + Cardinality(Definitions(sym)) - Len(TreeMembers(syntaxTrees))

\* Compilation::addSyntaxTree(tree)
AddSyntaxTree(tree) ==
    LET err == AddSyntaxTreeError(tree) IN
    /\ UNCHANGED <<pair, added, DiagnosticState, vectorTypeCache, frames, prevParse>>
    /\ IF err # ""
       THEN /\ last' = Call("addSyntaxTree", tree.id, err, Null)
            /\ UNCHANGED <<sym, scope, deferredData, importData, finalized, finalizing,
                           sourceManager, compilationUnits, syntaxTrees, definitionMap,
                           packageMap, globalInstantiations, defaultNetTypeMap,
                           unconnectedDriveMap, timeScaleDirectiveMap,
                           cachedParseDiagnostics, topInstances, rootCompilationUnits,
                           registered>>
       ELSE LET unit == NextHandle(Heap)
                h1   == EmplaceScope(Heap, [BlankSymbol EXCEPT !.kind = "CompilationUnit"])
                h2   == AddMember(h1, Root, unit)
                maps == MetadataAll([defaultNetType |-> defaultNetTypeMap,
                                     unconnectedDrive |-> unconnectedDriveMap,
                                     timeScale |-> timeScaleDirectiveMap],
                                    tree, tree.metadata)
                r    == AddMembersAll(h2, definitionMap, unit, tree.members)
            IN  /\ OpsDone + 1 <= MaxOps
                /\ sourceManager' = tree.sourceManager
                /\ compilationUnits' = Append(compilationUnits, unit)
                /\ defaultNetTypeMap' = maps.defaultNetType
                /\ unconnectedDriveMap' = maps.unconnectedDrive
                /\ timeScaleDirectiveMap' = maps.timeScale
                /\ globalInstantiations' = globalInstantiations \cup tree.globalInstantiations
                /\ sym' = r.heap.sym
                /\ scope' = r.heap.scope
                /\ deferredData' = r.heap.deferredData
                /\ importData' = r.heap.importData
                /\ definitionMap' = r.definitionMap
                /\ syntaxTrees' = Append(syntaxTrees, tree)
                /\ cachedParseDiagnostics' = <<>>
                /\ registered' = registered \cup (Definitions(r.heap.sym) \ Definitions(sym))
                /\ last' = Call("addSyntaxTree", tree.id, "", Null)
                /\ UNCHANGED <<finalized, finalizing, packageMap, topInstances,
                               rootCompilationUnits>>

\* The scopes a definition handed to addDefinition can have as its parent: the
\* root, a compilation unit, another definition (a nested one).
DefinitionParents == {Root} \cup Range(compilationUnits) \cup Definitions(sym)

\* Compilation::addDefinition(definition), the definition made by the caller in
\* scope `parent`.
AddDefinition(decl, parent) ==
    LET d  == NextHandle(Heap)
        h1 == Emplace(Heap, DefinitionSymbol(decl, parent))
    IN  /\ OpsDone + 1 <= MaxOps
        /\ sym' = h1.sym
        /\ definitionMap' = EmplaceDefinition(h1.sym, definitionMap, d)
        /\ registered' = IF finalized THEN registered ELSE registered \cup {d}
        /\ last' = Call("addDefinition", d, "", Null)
        /\ UNCHANGED <<scope, deferredData, importData, finalized, finalizing,
                       sourceManager, compilationUnits, syntaxTrees, packageMap,
                       globalInstantiations, defaultNetTypeMap, unconnectedDriveMap,
                       timeScaleDirectiveMap, cachedParseDiagnostics, topInstances,
                       rootCompilationUnits, pair, added, DiagnosticState,
                       vectorTypeCache, frames, prevParse>>

\* InstanceSymbol::isKind(kind)
IsInstanceKind(kind) ==
    kind \in {"ModuleInstance", "ProgramInstance", "InterfaceInstance"}

\* Symbol::getLexicalScope(): the scope a symbol was declared in, which for an
\* instance is the scope its definition was declared in.
GetLexicalScope(symtab, s) ==
    IF IsInstanceKind(symtab[s].kind)
    THEN symtab[symtab[s].definition].parentScope
    ELSE symtab[s].parentScope

\* Compilation::getDefinition(lookupName, scope)
\* (the lookup in the scope itself only, the climb left out)
GetDefinitionNoClimb(symtab, map, lookupName, searchScope) ==
    IF searchScope = Null THEN Null
    ELSE MapFind(map, <<lookupName, searchScope>>)

RECURSIVE GetDefinitionResult(_, _, _, _)
GetDefinitionResult(symtab, map, lookupName, searchScope) ==
    IF searchScope = Null THEN Null
    ELSE IF <<lookupName, searchScope>> \in DOMAIN map
    THEN map[<<lookupName, searchScope>>]
    ELSE IF symtab[searchScope].kind = "Root" THEN Null
    ELSE GetDefinitionResult(symtab, map, lookupName,
                             GetLexicalScope(symtab, searchScope))

\* The scopes a lookup of a definition can start in: the root, the compilation
\* units, the definitions and the top-level instances.
DefinitionScopes ==
    {Root} \cup Range(compilationUnits) \cup Definitions(sym) \cup Range(topInstances)

GetDefinition(lookupName, searchScope) ==
    /\ last' = Call("getDefinition", <<lookupName, searchScope>>, "",
                    GetDefinitionResult(sym, definitionMap, lookupName, searchScope))
    /\ UNCHANGED <<sym, scope, deferredData, importData, finalized, finalizing,
                   sourceManager, compilationUnits, syntaxTrees, definitionMap,
                   packageMap, globalInstantiations, defaultNetTypeMap,
                   unconnectedDriveMap, timeScaleDirectiveMap,
                   cachedParseDiagnostics, topInstances, rootCompilationUnits,
                   registered, pair, added, DiagnosticState, vectorTypeCache,
                   frames, prevParse>>


\* The filter of getRoot's loop over the definition map: a top-level definition is
\* keyed under the root, is a module, is instantiated nowhere and has a default
\* for every parameter.
AllDefaulted(d) == \A i \in DOMAIN d.parameters : d.parameters[i]

IsTopDefinitionIgnoringInstantiations(symtab, key, d, globals) ==
    /\ key[2] = Root
    /\ symtab[d].definitionKind = "Module"
    /\ AllDefaulted(symtab[d])

IsTopDefinition(symtab, key, d, globals) ==
    /\ ~(key[2] # Root \/ symtab[d].definitionKind # "Module")
    /\ symtab[d].name \notin globals
    /\ AllDefaulted(symtab[d])

\* topDefinitions as the loop leaves it, the map iterated in the order `order`
\* (a sequence of its keys).
RECURSIVE TopDefinitions(_, _, _, _)
TopDefinitions(symtab, map, globals, order) ==
    IF order = <<>> THEN <<>>
    ELSE LET key  == Head(order)
             rest == TopDefinitions(symtab, map, globals, Tail(order))
         IN  IF IsTopDefinition(symtab, key, map[key], globals)
             THEN <<map[key]>> \o rest
             ELSE rest

\* The comparator of getRoot's std::sort.
DefinitionLess(symtab, a, b) == NameLess(symtab[a].name, symtab[b].name)

\* What std::sort may leave: a permutation of s in which no element is less than
\* one before it.
Sorted(symtab, s) ==
    \A i, j \in DOMAIN s : i < j => ~DefinitionLess(symtab, s[j], s[i])

\* (the definitions in any order at all: the sort left out)
UnsortedDefinitions(symtab, defs) == Orderings(Range(defs))

SortedDefinitions(symtab, defs) ==
    {s \in Orderings(Range(defs)) : Sorted(symtab, s)}

\* ModuleInstanceSymbol::instantiate(compilation, name, location, definition)
ModuleInstanceSymbol(symtab, d) ==
    [BlankSymbol EXCEPT !.kind = "ModuleInstance", !.name = symtab[d].name,
                        !.definition = d]

\* The instantiation loop of getRoot: the heap and topList.
RECURSIVE InstantiateAll(_, _, _)
InstantiateAll(h, defs, topList) ==
    IF defs = <<>> THEN [heap |-> h, topList |-> topList]
    ELSE LET instance == NextHandle(h)
             h1       == EmplaceScope(h, ModuleInstanceSymbol(h.sym, Head(defs)))
         IN  InstantiateAll(AddMember(h1, Root, instance), Tail(defs),
                            Append(topList, instance))

\* getRoot's first statement: a finalized compilation returns its root at once.
GetRootNeverReturnsEarly == FALSE

GetRootReturnsEarly == finalized

\* Compilation::getRoot()
GetRoot ==
    IF GetRootReturnsEarly
    THEN /\ last' = Call("getRoot", "finalized", "", Root)
         /\ UNCHANGED <<pair, added, DiagnosticState, vectorTypeCache, frames, prevParse>>
         /\ UNCHANGED <<sym, scope, deferredData, importData, finalized, finalizing,
                        sourceManager, compilationUnits, syntaxTrees, definitionMap,
                        packageMap, globalInstantiations, defaultNetTypeMap,
                        unconnectedDriveMap, timeScaleDirectiveMap,
                        cachedParseDiagnostics, topInstances, rootCompilationUnits,
                        registered>>
    ELSE /\ ~finalizing
         /\ \E order \in Orderings(DOMAIN definitionMap) :
              \E topDefinitions \in
                    SortedDefinitions(sym, TopDefinitions(sym, definitionMap,
                                                          globalInstantiations, order)) :
                LET r == InstantiateAll(Heap, topDefinitions, <<>>)
                IN  /\ sym' = r.heap.sym
                    /\ scope' = r.heap.scope
                    /\ deferredData' = r.heap.deferredData
                    /\ importData' = r.heap.importData
                    /\ topInstances' = r.topList
         /\ rootCompilationUnits' = compilationUnits
         /\ finalized' = TRUE
         /\ finalizing' = FALSE
         /\ last' = Call("getRoot", "fresh", "", Root)
         /\ UNCHANGED <<sourceManager, compilationUnits, syntaxTrees, definitionMap,
                        packageMap, globalInstantiations, defaultNetTypeMap,
                        unconnectedDriveMap, timeScaleDirectiveMap,
                        cachedParseDiagnostics, registered, pair, added,
                        DiagnosticState, vectorTypeCache, frames, prevParse>>

\* Diagnostics::sort(sourceManager): the diagnostics in the order of their
\* locations.  Any permutation ordered by location may come out.
RECURSIVE SortedDiagnostics(_)
SortedDiagnostics(diags) ==
    IF diags = <<>> THEN {<<>>}
    ELSE LET d == diags[Len(diags)]
         IN  UNION { { SubSeq(s, 1, k) \o <<d>> \o SubSeq(s, k + 1, Len(s)) :
                       k \in {k \in 0..Len(s) :
                                 /\ \A i \in 1..k : s[i].location <= d.location
                                 /\ \A i \in (k + 1)..Len(s) :
                                        d.location <= s[i].location} } :
                     s \in SortedDiagnostics(SubSeq(diags, 1, Len(diags) - 1)) }

\* appendRange over the retained trees
\* (the diagnostics of the last tree only)
TreeDiagnosticsOfLast(trees) ==
    IF trees = <<>> THEN <<>> ELSE trees[Len(trees)].diagnostics

RECURSIVE TreeDiagnostics(_)
TreeDiagnostics(trees) ==
    IF trees = <<>> THEN <<>>
    ELSE Head(trees).diagnostics \o TreeDiagnostics(Tail(trees))

\* Compilation::getParseDiagnostics()
GetParseDiagnostics ==
    /\ IF cachedParseDiagnostics # <<>>
       THEN /\ last' = Call("getParseDiagnostics", "cached", "", cachedParseDiagnostics[1])
            /\ prevParse' = <<[trees |-> Len(syntaxTrees),
                               list |-> cachedParseDiagnostics[1]]>>
            /\ UNCHANGED cachedParseDiagnostics
       ELSE \E diags \in (IF sourceManager # Null
                          THEN SortedDiagnostics(TreeDiagnostics(syntaxTrees))
                          ELSE {TreeDiagnostics(syntaxTrees)}) :
                /\ cachedParseDiagnostics' = <<diags>>
                /\ prevParse' = <<[trees |-> Len(syntaxTrees), list |-> diags]>>
                /\ last' = Call("getParseDiagnostics", "fresh", "", diags)
    /\ UNCHANGED <<sym, scope, deferredData, importData, finalized, finalizing,
                   sourceManager, compilationUnits, syntaxTrees, definitionMap,
                   packageMap, globalInstantiations, defaultNetTypeMap,
                   unconnectedDriveMap, timeScaleDirectiveMap, topInstances,
                   rootCompilationUnits, registered, pair, added, DiagnosticState,
                   vectorTypeCache, frames>>

\* The state the constructor leaves.
Constructed ==
    /\ sym = <<RootSymbol>>
    /\ scope = (Root :> BlankScope)
    /\ deferredData = <<>>
    /\ importData = <<>>
    /\ finalized = FALSE
    /\ finalizing = FALSE
    /\ sourceManager = Null
    /\ compilationUnits = <<>>
    /\ syntaxTrees = <<>>
    /\ definitionMap = EmptyMap
    /\ packageMap = EmptyMap
    /\ globalInstantiations = {}
    /\ defaultNetTypeMap = EmptyMap
    /\ unconnectedDriveMap = EmptyMap
    /\ timeScaleDirectiveMap = EmptyMap
    /\ cachedParseDiagnostics = <<>>
    /\ topInstances = <<>>
    /\ rootCompilationUnits = <<>>
    /\ registered = {}
    /\ added = <<>>
    /\ diagMap = EmptyMap
    /\ numErrors = 0
    /\ errorLimit = 0
    /\ cachedSemanticDiagnostics = <<>>
    /\ cachedAllDiagnostics = <<>>
    /\ visits = 0
    /\ vectorTypeCache = EmptyMap
    /\ frames = <<>>
    /\ prevParse = <<>>
    /\ last = Call("Compilation", Null, "", Null)

InitCompilation == Constructed /\ pair = <<>>

NextCompilation ==
    \/ \E tree \in Trees : AddSyntaxTree(tree)
    \/ \E decl \in Decls, parent \in DefinitionParents : AddDefinition(decl, parent)
    \/ GetRoot
    \/ GetParseDiagnostics
    \/ \E lookupName \in Names, searchScope \in DefinitionScopes :
          GetDefinition(lookupName, searchScope)

\* The compilation manager: syntax trees and definitions come in, getRoot finalizes.
SpecCompilation == InitCompilation /\ [][NextCompilation]_vars


\* Everything addSyntaxTree can write.
CompilationState ==
    <<sym, scope, deferredData, importData, finalized, finalizing, sourceManager,
      compilationUnits, syntaxTrees, definitionMap, packageMap, globalInstantiations,
      defaultNetTypeMap, unconnectedDriveMap, timeScaleDirectiveMap,
      cachedParseDiagnostics, topInstances, rootCompilationUnits>>

\* ------------------------------------------- two compilations side by side
\* `pair` holds two compilations that were each fed a compilation unit (handle 2)
\* holding a definition that was not registered (handle 3, the scope of nested
\* definitions).  Each has its arena, its definition map, the descriptions of the
\* definitions registered so far and, once getRoot ran, the descriptions of the
\* definitions of root.topInstances, in order.
PairArena ==
    << RootSymbol,
       [BlankSymbol EXCEPT !.kind = "CompilationUnit", !.parentScope = Root],
       [BlankSymbol EXCEPT !.kind = "Definition", !.name = "C",
                           !.definitionKind = "Module", !.parentScope = 2] >>

PairParents == {2, 3}

PairDecls == {decl \in Decls : decl.definitionKind = "Module"}

PairCompilation(globals) ==
    [sym |-> PairArena, definitionMap |-> EmptyMap, globalInstantiations |-> globals,
     registered |-> {}, top |-> <<>>, finalized |-> FALSE]

\* What a definition is, whatever its handle: name, kind, parameters, parent scope.
Description(symtab, d) ==
    [name |-> symtab[d].name, definitionKind |-> symtab[d].definitionKind,
     parameters |-> symtab[d].parameters, parentScope |-> symtab[d].parentScope]

\* addDefinition in compilation i of the pair
PairAddDefinition(i, decl, parent) ==
    LET c      == pair[i]
        d      == Len(c.sym) + 1
        symtab == Append(c.sym, DefinitionSymbol(decl, parent))
    IN  /\ ~c.finalized
        /\ Len(c.sym) - Len(PairArena) < MaxOps
        /\ Description(symtab, d) \notin c.registered
        /\ pair' = [pair EXCEPT ![i] =
                      [c EXCEPT !.sym = symtab,
                                !.definitionMap = EmplaceDefinition(symtab, @, d),
                                !.registered = @ \cup {Description(symtab, d)}]]
        /\ UNCHANGED <<CompilationState, registered, added, DiagnosticState,
                       vectorTypeCache, frames, prevParse, last>>

\* getRoot in compilation i of the pair: the selection, the sort, and the
\* definitions of the instances in the order of topList.
PairGetRoot(i) ==
    LET c == pair[i]
    IN  /\ ~c.finalized
        /\ \E order \in Orderings(DOMAIN c.definitionMap) :
             \E topDefinitions \in
                   SortedDefinitions(c.sym, TopDefinitions(c.sym, c.definitionMap,
                                                           c.globalInstantiations, order)) :
               pair' = [pair EXCEPT ![i] =
                          [c EXCEPT !.top = [k \in DOMAIN topDefinitions |->
                                                Description(c.sym, topDefinitions[k])],
                                    !.finalized = TRUE]]
        /\ UNCHANGED <<CompilationState, registered, added, DiagnosticState,
                       vectorTypeCache, frames, prevParse, last>>

InitPair ==
    /\ Constructed
    /\ \E globals \in {{}, {"B"}} :
          pair = <<PairCompilation(globals), PairCompilation(globals)>>

\* The compilations share nothing: the second is run once the first is finalized,
\* which leaves out no pair of runs.
PairTurn == IF pair[1].finalized THEN 2 ELSE 1

NextPair ==
    \/ \E decl \in PairDecls, parent \in PairParents :
          PairAddDefinition(PairTurn, decl, parent)
    \/ PairGetRoot(PairTurn)

\* Two compilations that are fed definitions and finalized independently.
SpecPair == InitPair /\ [][NextPair]_vars

\* ------------------------------------------------- claims: the compilation
RootMembers == Members(Root)

\* C1: addSyntaxTree throws when the compilation is finalized and when the tree's
\* source manager is not the one the first tree fixed, and a call that throws
\* leaves the compilation units, the retained trees, the root's members, the
\* metadata maps, the global instantiations and the parse-diagnostic cache (all of
\* the state) as they were.
C1_AddSyntaxTreeFailsCleanly ==
    [][last'.op = "addSyntaxTree" =>
         \A tree \in Trees :
            (/\ tree.id = last'.arg
             /\ \/ finalized
                \/ (sourceManager # Null /\ tree.sourceManager # sourceManager))
            => (last'.err # "" /\ UNCHANGED CompilationState)]_vars

\* C1, its case: a tree with another source manager was just rejected by a
\* compilation that holds a unit, a tree and a cached parse-diagnostic list.
C1_Witness ==
    /\ last.op = "addSyntaxTree"
    /\ last.err = "All syntax trees added to the compilation must use the same source manager"
    /\ compilationUnits # <<>>
    /\ cachedParseDiagnostics # <<>>

\* C2: once getRoot has returned, a later getRoot returns the same root, finalized
\* stays true, and neither a getRoot nor an addDefinition in between changes the
\* root's top-instance list or its member chain.
C2_GetRootIdempotent ==
    [][(finalized /\ last'.op \in {"getRoot", "addDefinition"}) =>
         /\ finalized'
         /\ topInstances' = topInstances
         /\ RootMembers' = RootMembers
         /\ (last'.op = "getRoot" => (last'.err = "" /\ last'.ret = Root))]_vars

\* C2, its case: getRoot has returned again, after a definition was registered
\* behind the instances of the first getRoot.
C2_Witness ==
    /\ last.op = "getRoot"
    /\ last.arg = "finalized"
    /\ topInstances # <<>>
    /\ \E d \in Definitions(sym) : \A k \in DOMAIN topInstances : topInstances[k] < d

\* C3: every top-level instance has a definition that is a module, is the entry
\* of its name under the root in the definition map, is not named in the
\* global-instantiation set and has a default for every parameter.
C3_TopInstancesQualify ==
    \A k \in DOMAIN topInstances :
        LET d == sym[topInstances[k]].definition
        IN  /\ sym[d].kind = "Definition"
            /\ sym[d].definitionKind = "Module"
            /\ MapFind(definitionMap, <<sym[d].name, Root>>) = d
            /\ sym[d].name \notin globalInstantiations
            /\ \A i \in DOMAIN sym[d].parameters : sym[d].parameters[i]

\* C3, its case: a finalized compilation with a top-level instance, a global
\* instantiation and a definition that was left out.
C3_Witness ==
    /\ finalized
    /\ topInstances # <<>>
    /\ globalInstantiations # {}
    /\ Cardinality(Definitions(sym)) > Len(topInstances)

\* A definition at file scope: its parent is the root or a compilation unit.
FileScope(d) ==
    \/ sym[d].parentScope = Root
    \/ sym[sym[d].parentScope].kind = "CompilationUnit"

Qualifies(d) ==
    /\ FileScope(d)
    /\ sym[d].definitionKind = "Module"
    /\ sym[d].name \notin globalInstantiations
    /\ \A i \in DOMAIN sym[d].parameters : sym[d].parameters[i]

InstancesOf(d) == {k \in DOMAIN topInstances : sym[topInstances[k]].definition = d}

\* No definition of the same name was registered at file scope before d.
FirstOfName(d) ==
    \A e \in registered : (e < d /\ FileScope(e)) => sym[e].name # sym[d].name

YieldsOneInstance(d) ==
    /\ Cardinality(InstancesOf(d)) = 1
    /\ \A k \in InstancesOf(d) : topInstances[k] \in Range(RootMembers)

\* C4 as claimed: every definition registered before the first getRoot that is at
\* file scope, a module, not globally instantiated and all-defaulted yields exactly
\* one top-level instance, which is a member of the root; a nested one yields none.
C4_EveryQualifyingDefinition ==
    finalized =>
        \A d \in registered :
            /\ Qualifies(d) => YieldsOneInstance(d)
            /\ ~FileScope(d) => InstancesOf(d) = {}

\* C4 amended: the same of every such definition that is the first registered under
\* its name at file scope (addDefinition keeps the first entry of a key).
C4_FirstQualifyingDefinition ==
    finalized =>
        \A d \in registered :
            /\ (Qualifies(d) /\ FirstOfName(d)) => YieldsOneInstance(d)
            /\ ~FileScope(d) => InstancesOf(d) = {}

\* C4, its case: a definition made in a compilation unit got its instance, and a
\* second definition was registered before getRoot.
C4_Witness ==
    /\ finalized
    /\ Cardinality(registered) >= 2
    /\ \E d \in registered :
          /\ sym[sym[d].parentScope].kind = "CompilationUnit"
          /\ Qualifies(d)
          /\ YieldsOneInstance(d)


\* The names of a top-instance list go strictly up.
Ascending(top) ==
    \A i, j \in DOMAIN top : i < j => NameLess(top[i].name, top[j].name)

BothFinalized == pair[1].finalized /\ pair[2].finalized

\* The scope a definition with parent p is keyed under.
KeyScopeOf(p) == IF PairArena[p].kind = "CompilationUnit" THEN Root ELSE p

\* No two of the definitions have the same name and the same key scope.
DistinctKeys(defs) ==
    \A a, b \in defs :
        (a.name = b.name /\ KeyScopeOf(a.parentScope) = KeyScopeOf(b.parentScope))
            => a = b

\* C5 as claimed: two compilations that were given the same set of definitions
\* have the same top-instance sequence, whatever the order of the registrations
\* and of the iteration of the definition map, and the sequence is in ascending
\* order of name.
C5_SameDefinitionsSameTop ==
    /\ \A i \in {1, 2} : pair[i].finalized => Ascending(pair[i].top)
    /\ (BothFinalized /\ pair[1].registered = pair[2].registered)
          => pair[1].top = pair[2].top

\* C5 amended: the same, of sets of definitions no two of which have the same
\* name and key scope (of two such definitions the one registered first is kept).
C5_DistinctDefinitionsSameTop ==
    /\ \A i \in {1, 2} : pair[i].finalized => Ascending(pair[i].top)
    /\ (BothFinalized /\ pair[1].registered = pair[2].registered
          /\ DistinctKeys(pair[1].registered))
          => pair[1].top = pair[2].top

\* C5, its case: the same two top-level modules were registered in the two
\* compilations in different orders, and both got both instances.
C5_Witness ==
    /\ BothFinalized
    /\ pair[1].registered = pair[2].registered
    /\ DistinctKeys(pair[1].registered)
    /\ pair[1].sym # pair[2].sym
    /\ Len(pair[1].top) = 2
    /\ pair[1].top = pair[2].top


\* ------------------------------------------------ Scope: deferred members
\* LazyType::get() of a declared type whose syntax is an enum: the first call makes
\* the EnumType, a scope whose members are its EnumValue symbols in declaration
\* order, and caches it in the LazyType.
RECURSIVE AddEnumValues(_, _, _)
AddEnumValues(h, t, names) ==
    IF names = <<>> THEN h
    ELSE LET v  == NextHandle(h)
             h1 == Emplace(h, [BlankSymbol EXCEPT !.kind = "EnumValue", !.name = Head(names)])
         IN  AddEnumValues(AddMember(h1, t, v), t, Tail(names))

LazyTypeGet(h, owner) ==
    IF h.sym[owner].type # Null THEN h
    ELSE LET t  == NextHandle(h)
             h1 == EmplaceScope(h, [BlankSymbol EXCEPT !.kind = "EnumType"])
             h2 == AddEnumValues(h1, t, h.sym[owner].enumValues)
         IN  [h2 EXCEPT !.sym[owner].type = t]

\* The inner loop with an anchor that does not advance: every value is spliced
\* after the anchor the type was registered with.
RECURSIVE InsertTransparentMembersAtAnchor(_, _, _, _)
InsertTransparentMembersAtAnchor(h, s, values, insertAt) ==
    IF values = <<>> THEN h
    ELSE LET wrapped == NextHandle(h)
             h1      == Emplace(h, [BlankSymbol EXCEPT !.kind = "TransparentMember",
                                                       !.name = h.sym[Head(values)].name,
                                                       !.wrapped = Head(values)])
         IN  Bind(InsertMember(h1, s, wrapped, insertAt),
                  LAMBDA h2 : InsertTransparentMembersAtAnchor(h2, s, Tail(values), insertAt))

\* The inner loop of the first phase of realizeDeferredMembers: a TransparentMember
\* for each value, each spliced after the one before.
RECURSIVE InsertTransparentMembers(_, _, _, _)
InsertTransparentMembers(h, s, values, insertAt) ==
    IF values = <<>> THEN h
    ELSE LET wrapped == NextHandle(h)
             h1      == Emplace(h, [BlankSymbol EXCEPT !.kind = "TransparentMember",
                                                       !.name = h.sym[Head(values)].name,
                                                       !.wrapped = Head(values)])
         IN  Bind(InsertMember(h1, s, wrapped, insertAt),
                  LAMBDA h2 : InsertTransparentMembers(h2, s, Tail(values), wrapped))

\* The first phase: the registered transparent types, in registration order.
RECURSIVE RealizeTransparentTypes(_, _, _)
RealizeTransparentTypes(h, s, types) ==
    IF types = <<>> THEN h
    ELSE LET entry == Head(types)
             Insert(h1) ==
                 LET type == h1.sym[entry.type].type
                 IN  IF type # Null /\ h1.sym[type].kind = "EnumType"
                     THEN InsertTransparentMembers(h1, s, Chain(h1, type), entry.insertAt)
                     ELSE h1
         IN  Bind(Bind(LazyTypeGet(h, entry.type), Insert),
                  LAMBDA h2 : RealizeTransparentTypes(h2, s, Tail(types)))

\* InstanceSymbol::fromSyntax and the loop after it: an instance symbol (a scope)
\* for each instance of the instantiation, each spliced after the one before.
RECURSIVE InsertInstances(_, _, _, _)
InsertInstances(h, s, names, lastInserted) ==
    IF names = <<>> THEN h
    ELSE LET symbol == NextHandle(h)
             h1     == EmplaceScope(h, [BlankSymbol EXCEPT !.kind = "ModuleInstance",
                                                           !.name = Head(names)])
         IN  Bind(InsertMember(h1, s, symbol, lastInserted),
                  LAMBDA h2 : InsertInstances(h2, s, Tail(names), symbol))

\* The second phase: the queued syntax nodes, in queueing order.  An if-generate
\* yields a block or nothing, a loop-generate a block array.
RECURSIVE RealizeMembers(_, _, _)
RealizeMembers(h, s, members) ==
    IF members = <<>> THEN h
    ELSE LET node   == Head(members).node
             at     == Head(members).insertionPoint
             block  == NextHandle(h)
             h1 == CASE node.kind = "HierarchyInstantiation" ->
                            InsertInstances(h, s, node.instances, at)
                     [] node.kind = "IfGenerate" ->
                            IF node.instances = <<>> THEN h
                            ELSE InsertMember(
                                     EmplaceScope(h, [BlankSymbol EXCEPT
                                                          !.kind = "GenerateBlock",
                                                          !.name = Head(node.instances)]),
                                     s, block, at)
                     [] node.kind = "LoopGenerate" ->
                            InsertMember(
                                EmplaceScope(h, [BlankSymbol EXCEPT
                                                     !.kind = "GenerateBlockArray",
                                                     !.name = node.name]),
                                s, block, at)
         IN  Bind(h1, LAMBDA h2 : RealizeMembers(h2, s, Tail(members)))

\* A realizeDeferredMembers that leaves the deferred index of the scope as it is.
RealizeDeferredMembersKeepingIndex(h, s) ==
    LET data == h.deferredData[h.scope[s].deferredMemberIndex]
    IN  Bind(RealizeTransparentTypes(h, s, data.transparentTypes),
             LAMBDA h2 : IF data.statement # Null THEN h2
                         ELSE RealizeMembers(h2, s, data.members))

\* Scope::realizeDeferredMembers(); its ASSERT (the scope has deferred data) is its
\* precondition.  The deferred index is cleared first.  No scope of the model has
\* a statement body.
RealizeDeferredMembers(h, s) ==
    LET data == h.deferredData[h.scope[s].deferredMemberIndex]
        h1   == [h EXCEPT !.scope[s].deferredMemberIndex = Null]
    IN  Bind(RealizeTransparentTypes(h1, s, data.transparentTypes),
             LAMBDA h2 : IF data.statement # Null THEN h2
                         ELSE RealizeMembers(h2, s, data.members))

\* Scope::ensureMembers(): realizes the deferred members if there are any.
EnsureMembers(h, s) ==
    IF h.scope[s].deferredMemberIndex # Null THEN RealizeDeferredMembers(h, s) ELSE h


\* ------------------------------------------------------------------ lookup
\* UINT_MAX, the index of LookupRefPoint::max: the largest value of the unsigned
\* index type, which the model keeps IndexBits wide.
UINT_MAX == 2^IndexBits - 1

LookupRefPoint(s, index) == [scope |-> s, index |-> index]

\* LookupRefPoint::before(symbol), ::after(symbol); the index is a uint32_t.
LookupRefPointBefore(symtab, m) ==
    LookupRefPoint(symtab[m].parentScope, symtab[m].indexInScope)

\* LookupRefPoint::after with the index of the symbol itself, as before() gives it.
LookupRefPointAfterSame(symtab, m) ==
    LookupRefPoint(symtab[m].parentScope, symtab[m].indexInScope)

LookupRefPointAfter(symtab, m) ==
    LookupRefPoint(symtab[m].parentScope, (symtab[m].indexInScope + 1) % (UINT_MAX + 1))

\* LookupRefPoint::operator<: the indices alone are compared.
RefPointLess(a, b) == a.index < b.index

\* LookupResult::clear(): the state of a fresh result.
LookupResultClear ==
    [nameKind |-> "Local", referencePoint |-> LookupRefPoint(Null, UINT_MAX),
     resultKind |-> "NotFound", resultWasImported |-> FALSE, symbol |-> Null,
     imports |-> <<>>]

\* LookupResult::setSymbol(found, wasImported)
SetSymbol(result, found, wasImported) ==
    [result EXCEPT !.symbol = found, !.resultWasImported = wasImported,
                   !.resultKind = "Found"]

\* LookupResult::addPotentialImport(import)
AddPotentialImportKeepingKind(result, import) ==
    [result EXCEPT !.imports = Append(@, import)]

AddPotentialImport(result, import) ==
    [result EXCEPT !.resultKind = IF result.imports # <<>> THEN "AmbiguousImport" ELSE @,
                   !.imports = Append(@, import)]

\* LookupResult::referencePointMatters for a result of which every name kind is
\* checked against the reference point.
ReferencePointMattersAlways(result) == TRUE

\* LookupResult::referencePointMatters()
ReferencePointMatters(result) == result.nameKind \in {"Local", "Scoped"}

\* Compilation::getPackage(lookupName)
GetPackage(map, lookupName) == MapFind(map, lookupName)

\* Compilation::queryImports(index)
QueryImports(h, index) == IF index = Null THEN <<>> ELSE h.importData[index]

\* Scope::lookupDirect(searchName): the heap (the scope's deferred members may get
\* realized) and the symbol, Null if there is none.
LookupDirect(h, s, searchName) ==
    IF searchName = "" THEN [heap |-> h, symbol |-> Null]
    ELSE LET Find(h1) ==
                 LET result == MapFind(h1.scope[s].nameMap, searchName)
                 IN  [heap |-> h1,
                      symbol |-> IF result # Null /\ h1.sym[result].kind # "ExplicitImport"
                                 THEN result ELSE Null]
         IN  Bind(EnsureMembers(h, s), Find)

\* ExplicitImportSymbol::importedSymbol(): the member of the named package, Null if
\* the package or the member is missing.
ImportedSymbol(h, map, m) ==
    LET package == GetPackage(map, h.sym[m].package)
    IN  IF package = Null THEN [heap |-> h, symbol |-> Null]
        ELSE LookupDirect(h, package, h.sym[m].importName)

\* The test of the import loop of Scope::lookup that ends the loop: the reference
\* point is before the end of the import.
ImportOutOfReachNever(result, symtab, import) == FALSE

ImportOutOfReach(result, symtab, import) ==
    RefPointLess(result.referencePoint, LookupRefPointAfter(symtab, import))

\* The import loop of Scope::lookup.  `fault` tells what undefined behaviour was
\* met: "call" is a member call through a null package pointer.
RECURSIVE ImportLoop(_, _, _, _, _, _)
ImportLoop(h, map, imports, searchName, result, importResults) ==
    IF imports = <<>> \/ ImportOutOfReach(result, h.sym, Head(imports))
    THEN [heap |-> h, result |-> result, importResults |-> importResults, fault |-> ""]
    ELSE LET import  == Head(imports)
             package == GetPackage(map, h.sym[import].package)
             Rest(direct) ==
                 IF direct.symbol # Null
                 THEN ImportLoop(direct.heap, map, Tail(imports), searchName,
                                 AddPotentialImport(result, direct.symbol),
                                 Append(importResults, <<import, direct.symbol>>))
                 ELSE ImportLoop(direct.heap, map, Tail(imports), searchName, result,
                                 importResults)
         IN  IF package = Null
             THEN [heap |-> h, result |-> result, importResults |-> importResults,
                   fault |-> "call"]
             ELSE Bind(LookupDirect(h, package, searchName), Rest)

\* `locationGood` of Scope::lookup for the entry `symbol` of the name map.
LocationGoodAlways(result, symtab, symbol) == TRUE

LocationGood(result, symtab, symbol) ==
    IF ReferencePointMatters(result)
    THEN RefPointLess(LookupRefPointBefore(symtab, symbol), result.referencePoint)
    ELSE TRUE

\* Scope::lookup(searchName, result) on scope s: the heap, the result and the
\* undefined behaviour met ("reference": setSymbol was handed the target of a null
\* pointer).
RECURSIVE ScopeLookup(_, _, _, _, _)
ScopeLookup(h, map, s, searchName, result) ==
    LET Found(h1, symbol) ==
            CASE h1.sym[symbol].kind = "ExplicitImport" ->
                     Bind(ImportedSymbol(h1, map, symbol),
                          LAMBDA imported :
                              [heap |-> imported.heap,
                               result |-> SetSymbol(result, imported.symbol, TRUE),
                               fault |-> IF imported.symbol = Null THEN "reference" ELSE ""])
              [] h1.sym[symbol].kind = "TransparentMember" ->
                     [heap |-> h1,
                      result |-> SetSymbol(result, h1.sym[symbol].wrapped, FALSE),
                      fault |-> ""]
              [] OTHER ->
                     [heap |-> h1, result |-> SetSymbol(result, symbol, FALSE),
                      fault |-> ""]
        Imported(loop) ==
            IF loop.fault # ""
            THEN [heap |-> loop.heap, result |-> loop.result, fault |-> loop.fault]
            ELSE IF loop.importResults # <<>>
            THEN [heap |-> loop.heap,
                  result |-> IF Len(loop.importResults) = 1
                             THEN SetSymbol(loop.result, loop.importResults[1][2], TRUE)
                             ELSE loop.result,
                  fault |-> ""]
            ELSE IF loop.heap.sym[s].kind = "Root"
            THEN IF result.nameKind = "Scoped"
                 THEN [heap |-> loop.heap,
                       result |-> SetSymbol(loop.result, GetPackage(map, searchName), FALSE),
                       fault |-> IF GetPackage(map, searchName) = Null
                                 THEN "reference" ELSE ""]
                 ELSE [heap |-> loop.heap, result |-> loop.result, fault |-> ""]
            ELSE ScopeLookup(loop.heap, map, loop.heap.sym[s].parentScope, searchName,
                             [loop.result EXCEPT
                                 !.referencePoint = LookupRefPointAfter(loop.heap.sym, s)])
        Local(h1) ==
            LET symbol == MapFind(h1.scope[s].nameMap, searchName)
            IN  IF symbol # Null /\ LocationGood(result, h1.sym, symbol)
                THEN Found(h1, symbol)
                ELSE Bind(ImportLoop(h1, map, QueryImports(h1, h1.scope[s].importDataIndex),
                                     searchName, result, <<>>),
                          Imported)
    IN  Bind(EnsureMembers(h, s), Local)


\* ------------------------------------------------- Scope::addMembers, lookup
\* The syntax nodes handed to Scope::addMembers.  A node has the fields of its
\* kind; the others stay blank.
BlankSyntax ==
    [kind |-> "Unknown", name |-> "", typeSyntax |-> "None", enumValues |-> <<>>,
     items |-> <<>>, instances |-> <<>>, members |-> <<>>]

\* parameter <name> = ...;
ParameterDecl(n) ==
    [BlankSyntax EXCEPT !.kind = "ParameterDeclarationStatement", !.name = n]

\* enum { <values> } <name>;
EnumDataDecl(n, values) ==
    [BlankSyntax EXCEPT !.kind = "DataDeclaration", !.name = n,
                        !.typeSyntax = "EnumType", !.enumValues = values]

\* import <package>::<item>, ...;  with "*" the item of a wildcard import
ImportDecl(items) == [BlankSyntax EXCEPT !.kind = "PackageImportDeclaration", !.items = items]

\* <definition> <instance>(), ...;
InstantiationDecl(names) ==
    [BlankSyntax EXCEPT !.kind = "HierarchyInstantiation", !.instances = names]

\* function <name>; endfunction
FunctionDecl(n) == [BlankSyntax EXCEPT !.kind = "FunctionDeclaration", !.name = n]

\* begin <members> end, a generate block
GenerateBlockDecl(members) ==
    [BlankSyntax EXCEPT !.kind = "GenerateBlock", !.members = members]

\* package <name>; <members> endpackage
PackageDecl(n, members) ==
    [BlankSyntax EXCEPT !.kind = "PackageDeclaration", !.name = n, !.members = members]

\* Compilation::trackImport(index, import), on the import list of scope s
TrackImport(h, s, import) ==
    IF h.scope[s].importDataIndex # Null
    THEN [h EXCEPT !.importData[h.scope[s].importDataIndex] = Append(@, import)]
    ELSE [h EXCEPT !.importData = Append(@, <<import>>),
                   !.scope[s].importDataIndex = Len(h.importData) + 1]

\* The PackageImportDeclaration case of Scope::addMembers: its loop over the items.
RECURSIVE AddImportItems(_, _, _)
AddImportItems(h, s, items) ==
    IF items = <<>> THEN h
    ELSE LET item   == Head(items)
             import == NextHandle(h)
             h1 == IF item.item = "*"
                   THEN TrackImport(
                            AddMember(Emplace(h, [BlankSymbol EXCEPT
                                                      !.kind = "WildcardImport",
                                                      !.package = item.package]),
                                      s, import),
                            s, import)
                   ELSE AddMember(Emplace(h, [BlankSymbol EXCEPT
                                                  !.kind = "ExplicitImport",
                                                  !.name = item.item,
                                                  !.package = item.package,
                                                  !.importName = item.item]),
                                  s, import)
         IN  AddImportItems(h1, s, Tail(items))

\* Scope::addMembers(syntax) on scope s, for the kinds of syntax above: the heap
\* and the package map it leaves.  A package is made with its members by
\* PackageSymbol::fromSyntax, in the scope that declares it, and registered by
\* Compilation::addPackage.
RECURSIVE AddMembers(_, _, _, _)
AddMembers(h, map, s, syntax) ==
    LET member == NextHandle(h)
        value  == [BlankSymbol EXCEPT !.name = syntax.name,
                                      !.typeSyntax = syntax.typeSyntax,
                                      !.enumValues = syntax.enumValues]
        \* the loop over syntax.members, each handed to addMembers of scope `to`
        All(start, to) ==
            LET members[i \in 0..Len(syntax.members)] ==
                    IF i = 0 THEN start
                    ELSE Bind(members[i - 1],
                              LAMBDA acc : AddMembers(acc.heap, acc.packageMap, to,
                                                      syntax.members[i]))
            IN  members[Len(syntax.members)]
    IN  CASE syntax.kind = "PackageDeclaration" ->
                 LET made == All([heap |-> EmplaceScope(h, [BlankSymbol EXCEPT
                                                               !.kind = "Package",
                                                               !.name = syntax.name,
                                                               !.parentScope = s]),
                                  packageMap |-> map],
                                 member)
                 IN  [heap |-> made.heap,
                      packageMap |-> MapEmplace(made.packageMap, syntax.name, member)]
          [] syntax.kind = "GenerateBlock" ->
                 All([heap |-> h, packageMap |-> map], s)
          [] syntax.kind = "PackageImportDeclaration" ->
                 [heap |-> AddImportItems(h, s, syntax.items), packageMap |-> map]
          [] syntax.kind = "HierarchyInstantiation" ->
                 [heap |-> AddDeferredMember(h, s, syntax), packageMap |-> map]
          [] syntax.kind = "FunctionDeclaration" ->
                 [heap |-> AddMember(EmplaceScope(h, [value EXCEPT !.kind = "Subroutine"]),
                                     s, member),
                  packageMap |-> map]
          [] syntax.kind = "DataDeclaration" ->
                 [heap |-> AddMember(Emplace(h, [value EXCEPT !.kind = "Variable"]), s, member),
                  packageMap |-> map]
          [] syntax.kind = "ParameterDeclarationStatement" ->
                 [heap |-> AddMember(Emplace(h, [value EXCEPT !.kind = "Parameter"]), s, member),
                  packageMap |-> map]

\* The compilation unit of the first syntax tree: the second symbol of the arena.
Unit == 2

\* A syntax tree that declares two packages:
\*   package p; parameter A = ...; endpackage
\*   package q; parameter A = ...; parameter B = ...; endpackage
PackageTree ==
    [id |-> "t0", sourceManager |-> 1, metadata |-> <<>>, globalInstantiations |-> {},
     members |-> << PackageDecl("p", <<ParameterDecl("A")>>),
                    PackageDecl("q", <<ParameterDecl("A"), ParameterDecl("B")>>) >>,
     diagnostics |-> <<>>]

\* What the constructor and addSyntaxTree(PackageTree) leave of the arena and of
\* the package map.
PackageArena ==
    LET h0 == [sym |-> <<RootSymbol>>, scope |-> (Root :> BlankScope),
               deferredData |-> <<>>, importData |-> <<>>]
        h1 == AddMember(EmplaceScope(h0, [BlankSymbol EXCEPT !.kind = "CompilationUnit"]),
                        Root, Unit)
        r1 == AddMembers(h1, EmptyMap, Unit, PackageTree.members[1])
    IN  AddMembers(r1.heap, r1.packageMap, Unit, PackageTree.members[2])

\* The syntax the model hands to addMembers of the compilation unit.
ScopeSyntax ==
    { ParameterDecl("A"), ParameterDecl("B"),
      EnumDataDecl("B", <<"A">>),
      EnumDataDecl("A", <<"B", "A">>),
      ImportDecl(<< [package |-> "p", item |-> "*"] >>),
      ImportDecl(<< [package |-> "q", item |-> "*"] >>),
      ImportDecl(<< [package |-> "q", item |-> "B"] >>),
      InstantiationDecl(<<"B">>),
      GenerateBlockDecl(<< EnumDataDecl("B", <<"A">>), InstantiationDecl(<<"B">>) >>),
      FunctionDecl("A") }

\* Scope::addMembers(syntax) called on scope s
ScopeAddMembers(s, syntax) ==
    /\ Len(added) < MaxOps
    /\ \E r \in {AddMembers(Heap, packageMap, s, syntax)} :
        /\ sym' = r.heap.sym
        /\ scope' = r.heap.scope
        /\ deferredData' = r.heap.deferredData
        /\ importData' = r.heap.importData
        /\ packageMap' = r.packageMap
        /\ added' = Append(added, [scope |-> s, syntax |-> syntax])
        /\ last' = Call("addMembers", [scope |-> s, syntax |-> syntax], "", Null)
        /\ UNCHANGED <<finalized, finalizing, sourceManager, compilationUnits, syntaxTrees,
                       definitionMap, globalInstantiations, defaultNetTypeMap,
                       unconnectedDriveMap, timeScaleDirectiveMap, cachedParseDiagnostics,
                       topInstances, rootCompilationUnits, registered, pair,
                       DiagnosticState, vectorTypeCache, frames, prevParse>>

\* The names, name kinds and reference point indices of the lookups of the model.
SearchNames == Names \cup {"p"}

NameKinds == {"Local", "Scoped", "Callable"}

RefPointIndices == 0..(MaxOps + 1) \cup {UINT_MAX}

\* The scopes a lookup starts in: the root, the unit, the packages, the
\* subroutines, the instances.
LookupScopes ==
    {s \in DOMAIN scope :
        sym[s].kind \in {"Root", "CompilationUnit", "Package", "Subroutine",
                         "ModuleInstance"}}

\* What a lookup is called with.
LookupArg(s, searchName, nameKind, index) ==
    [scope |-> s, name |-> searchName, nameKind |-> nameKind,
     referencePoint |-> LookupRefPoint(s, index)]

\* A caller's lookup: a cleared LookupResult gets its name kind and its reference
\* point, then Scope::lookup(searchName, result) runs on scope s.  Where the code
\* binds a reference to the target of a null pointer the build may go on with the
\* null address or stop; a member call through a null pointer stops.
\* The model follows a lookup by a call of addMembers, never by a second lookup:
\* all a lookup leaves behind are the realized members of the scopes it went
\* through, which the second lookup would have made itself.
Lookup(s, searchName, nameKind, index) ==
    /\ last.op # "lookup"
    /\ \E r \in {ScopeLookup(Heap, packageMap, s, searchName,
                             [LookupResultClear EXCEPT
                                 !.nameKind = nameKind,
                                 !.referencePoint = LookupRefPoint(s, index)])} :
        /\ sym' = r.heap.sym
        /\ scope' = r.heap.scope
        /\ deferredData' = r.heap.deferredData
        /\ importData' = r.heap.importData
        /\ \/ r.fault # "call" /\ last' = Call("lookup", LookupArg(s, searchName, nameKind, index), "", r.result)
           \/ r.fault # "" /\ last' = Call("lookup", LookupArg(s, searchName, nameKind, index), "null dereference", Null)
    /\ UNCHANGED <<finalized, finalizing, sourceManager, compilationUnits, syntaxTrees,
                   definitionMap, packageMap, globalInstantiations, defaultNetTypeMap,
                   unconnectedDriveMap, timeScaleDirectiveMap, cachedParseDiagnostics,
                   topInstances, rootCompilationUnits, registered, pair, added,
                   DiagnosticState, vectorTypeCache, frames, prevParse>>

\* The state after the constructor and addSyntaxTree(PackageTree).
InitScope ==
    /\ sym = PackageArena.heap.sym
    /\ scope = PackageArena.heap.scope
    /\ deferredData = PackageArena.heap.deferredData
    /\ importData = PackageArena.heap.importData
    /\ packageMap = PackageArena.packageMap
    /\ finalized = FALSE
    /\ finalizing = FALSE
    /\ sourceManager = PackageTree.sourceManager
    /\ compilationUnits = <<Unit>>
    /\ syntaxTrees = <<PackageTree>>
    /\ definitionMap = EmptyMap
    /\ globalInstantiations = {}
    /\ defaultNetTypeMap = EmptyMap
    /\ unconnectedDriveMap = EmptyMap
    /\ timeScaleDirectiveMap = EmptyMap
    /\ cachedParseDiagnostics = <<>>
    /\ topInstances = <<>>
    /\ rootCompilationUnits = <<>>
    /\ registered = {}
    /\ pair = <<>>
    /\ added = <<>>
    /\ diagMap = EmptyMap
    /\ numErrors = 0
    /\ errorLimit = 0
    /\ cachedSemanticDiagnostics = <<>>
    /\ cachedAllDiagnostics = <<>>
    /\ visits = 0
    /\ vectorTypeCache = EmptyMap
    /\ frames = <<>>
    /\ prevParse = <<>>
    /\ last = Call("addSyntaxTree", PackageTree.id, "", Null)

NextScope ==
    \/ \E syntax \in ScopeSyntax : ScopeAddMembers(Unit, syntax)
    \/ \E s \in LookupScopes, searchName \in SearchNames, nameKind \in NameKinds,
          index \in RefPointIndices : Lookup(s, searchName, nameKind, index)

\* Members come into the compilation unit, lookups run in the scopes.
SpecScope == InitScope /\ [][NextScope]_vars


\* ------------------------------------------------------ claims on lookups
\* The last call was a lookup, and it returned.
LookupReturned == last.op = "lookup" /\ last.err = ""

\* The result a caller hands to the lookup of `last`.
FreshResult ==
    [LookupResultClear EXCEPT !.nameKind = last.arg.nameKind,
                              !.referencePoint = last.arg.referencePoint]

\* The entry of the name map of scope s for name n, Null if there is none.
Entry(s, n) == MapFind(scope[s].nameMap, n)

\* What a name map entry stands for: the symbol an explicit import names, the
\* symbol a transparent member wraps, the entry itself otherwise.
Unwrapped(m) ==
    CASE sym[m].kind = "ExplicitImport" ->
             IF sym[m].package \in DOMAIN packageMap
             THEN Entry(packageMap[sym[m].package], sym[m].importName)
             ELSE Null
      [] sym[m].kind = "TransparentMember" -> sym[m].wrapped
      [] OTHER -> m

\* The lookup of `last` again, in a scope s that has no entry for the name.
ResultWithoutEntry(s, n) ==
    ScopeLookup([Heap EXCEPT !.scope[s].nameMap =
                     [k \in DOMAIN scope[s].nameMap \ {n} |-> scope[s].nameMap[k]]],
                packageMap, s, n, FreshResult).result

\* C6: declared before use.  A Local or Scoped lookup in scope S of a name whose
\* name-map entry in S is m returns m (unwrapped) from S, without climbing, exactly
\* when m's in-scope index is smaller than the index of the reference point; when
\* it is not, the lookup returns what it would if S had no entry for the name: the
\* search goes on with the imports and the parents.
C6_DeclaredBeforeUse ==
    (LookupReturned /\ last.arg.nameKind \in {"Local", "Scoped"}
       /\ Entry(last.arg.scope, last.arg.name) # Null)
    => LET S == last.arg.scope
           m == Entry(S, last.arg.name)
       IN  IF sym[m].indexInScope < last.arg.referencePoint.index
           THEN /\ last.ret.resultKind = "Found"
                /\ last.ret.symbol = Unwrapped(m)
                /\ last.ret.resultWasImported = (sym[m].kind = "ExplicitImport")
                /\ last.ret.referencePoint = last.arg.referencePoint
           ELSE /\ last.ret = ResultWithoutEntry(S, last.arg.name)
                /\ sym[m].kind \notin {"ExplicitImport", "TransparentMember"}
                     => last.ret.symbol # m

\* C6, its case: in a package that declares x before y, y was looked up from the
\* reference point of x and was not found.
C6_Witness ==
    /\ LookupReturned
    /\ last.arg.nameKind = "Local"
    /\ sym[last.arg.scope].kind = "Package"
    /\ \E x, y \in Range(Members(last.arg.scope)) :
          /\ sym[x].indexInScope < sym[y].indexInScope
          /\ last.arg.name = sym[y].name
          /\ last.arg.referencePoint = LookupRefPointBefore(sym, x)
    /\ last.ret.resultKind = "NotFound"
    /\ last.ret.symbol = Null

\* No member of S named as the lookup of `last` asks is visible to it.
NoVisibleLocal ==
    LET m == Entry(last.arg.scope, last.arg.name)
    IN  \/ m = Null
        \/ /\ last.arg.nameKind \in {"Local", "Scoped"}
           /\ sym[m].indexInScope >= last.arg.referencePoint.index

\* The wildcard imports of scope s, in the order of their declarations.
WildcardImports(s) ==
    SelectSeq(Members(s), LAMBDA m : sym[m].kind = "WildcardImport")

\* The member named n that package `name` directly contains, Null if there is no
\* such package or no such member (an explicit import is not a member).
DirectMember(name, n) ==
    IF name \notin DOMAIN packageMap THEN Null
    ELSE LET m == Entry(packageMap[name], n)
         IN  IF m # Null /\ sym[m].kind # "ExplicitImport" THEN m ELSE Null

\* The hits of a lookup of n in scope s from reference point index `index`: for
\* each wildcard import declared before the reference point whose package directly
\* contains n, in declaration order, the member of the package.
Hits(s, n, index) ==
    LET visible == SelectSeq(WildcardImports(s),
                             LAMBDA i : /\ sym[i].indexInScope < index
                                        /\ DirectMember(sym[i].package, n) # Null)
    IN  [k \in 1..Len(visible) |-> DirectMember(sym[visible[k]].package, n)]

\* C7: wildcard-import ambiguity.  When the scope of a lookup has no visible local
\* member of the name and two or more of its wildcard imports visible from the
\* reference point name packages that directly contain the name, the result is
\* AmbiguousImport with a null symbol, its import list is the hits in declaration
\* order, and the parent is not searched (the reference point is not rewritten).
C7_AmbiguousImport ==
    (LookupReturned /\ NoVisibleLocal
       /\ Len(Hits(last.arg.scope, last.arg.name, last.arg.referencePoint.index)) >= 2)
    => /\ last.ret.resultKind = "AmbiguousImport"
       /\ last.ret.symbol = Null
       /\ last.ret.resultWasImported = FALSE
       /\ last.ret.imports =
             Hits(last.arg.scope, last.arg.name, last.arg.referencePoint.index)
       /\ last.ret.referencePoint = last.arg.referencePoint

\* C7, its case: the scope imports p::* then q::*, both packages hold the name, and
\* the lookup came back with the two candidates, p's first.
C7_Witness ==
    /\ LookupReturned
    /\ NoVisibleLocal
    /\ LET imports == WildcardImports(last.arg.scope)
       IN  /\ Len(imports) = 2
           /\ sym[imports[1]].package = "p"
           /\ sym[imports[2]].package = "q"
    /\ last.ret.resultKind = "AmbiguousImport"
    /\ Len(last.ret.imports) = 2
    /\ sym[last.ret.imports[1]].parentScope = packageMap["p"]
    /\ sym[last.ret.imports[2]].parentScope = packageMap["q"]

\* The index of the use site of the lookup of `last` in scope s: of its reference
\* point in the scope it starts in, just after the scope it starts in in that
\* scope's parent.
UseSite(s) ==
    IF s = last.arg.scope THEN last.arg.referencePoint.index
    ELSE sym[last.arg.scope].indexInScope + 1

\* The scope of the lookup of `last` and its parent.
ScopesSearched ==
    {last.arg.scope} \cup
    (IF sym[last.arg.scope].parentScope # Null THEN {sym[last.arg.scope].parentScope} ELSE {})

\* The heap without the wildcard imports declared at or after the use site.
HeapWithoutLateImports ==
    [Heap EXCEPT !.importData =
        [k \in DOMAIN importData |->
            SelectSeq(importData[k],
                      LAMBDA i : \A s \in ScopesSearched :
                                     sym[i].parentScope = s
                                         => sym[i].indexInScope < UseSite(s))]]

\* C8: wildcard imports are consulted in the order of their declarations, and one
\* declared at or after the use site contributes nothing: the candidates of a
\* lookup not resolved by a local member are the hits of the imports declared
\* before the reference point, in declaration order, and the whole result is what
\* it would be if the imports declared at or after the use site were not there.
C8_ImportsInOrderBeforeUse ==
    LookupReturned
    => /\ last.ret =
             ScopeLookup(HeapWithoutLateImports, packageMap, last.arg.scope,
                         last.arg.name, FreshResult).result
       /\ (NoVisibleLocal
             /\ Hits(last.arg.scope, last.arg.name, last.arg.referencePoint.index) # <<>>)
          => last.ret.imports =
                Hits(last.arg.scope, last.arg.name, last.arg.referencePoint.index)

\* C8, its case: the only wildcard import of the scope whose package holds the name
\* is declared at or after the reference point, others may come before it, and the
\* lookup found nothing.
C8_Witness ==
    /\ LookupReturned
    /\ NoVisibleLocal
    /\ \E i \in Range(WildcardImports(last.arg.scope)) :
          /\ sym[i].indexInScope >= last.arg.referencePoint.index
          /\ DirectMember(sym[i].package, last.arg.name) # Null
    /\ last.arg.referencePoint.index > 1
    /\ last.ret.resultKind = "NotFound"
    /\ last.ret.imports = <<>>

\* Scope s and the scopes above it, up to the root.
RECURSIVE ParentChain(_)
ParentChain(s) == IF s = Null THEN {} ELSE {s} \cup ParentChain(sym[s].parentScope)

\* Name n is bound by no member of a scope of the parent chain of s, by no
\* wildcard import of such a scope and by no package.
Unbound(s, n) ==
    /\ \A c \in ParentChain(s) :
          /\ Entry(c, n) = Null
          /\ \A i \in Range(WildcardImports(c)) : DirectMember(sym[i].package, n) = Null
    /\ n \notin DOMAIN packageMap

\* C9: lookup failures are returned, not raised.  Every lookup returns; a result of
\* kind Found has a symbol; and a lookup of a name that no member, no wildcard
\* import and no package binds returns NotFound with a null symbol, a Scoped lookup
\* that reaches the root and finds no package of the name included.
C9_FailuresAreReturned ==
    last.op = "lookup"
    => /\ last.err = ""
       /\ last.ret.resultKind = "Found" => last.ret.symbol # Null
       /\ Unbound(last.arg.scope, last.arg.name)
             => last.ret.resultKind = "NotFound" /\ last.ret.symbol = Null

\* C9, its case: a Scoped lookup of a name that nothing binds went up to the root,
\* where there is no package of the name, and returned.
C9_Witness ==
    /\ LookupReturned
    /\ last.arg.nameKind = "Scoped"
    /\ last.arg.scope # Root
    /\ Unbound(last.arg.scope, last.arg.name)

\* Member i of scope s has a declared type that is an enum with a value named n.
IntroducesEnumValue(i, n) ==
    /\ HasLazyType(sym[i].kind)
    /\ sym[i].typeSyntax = "EnumType"
    /\ n \in Range(sym[i].enumValues)

\* Member m of scope s stands after member i in the sibling chain and is no
\* transparent member: it was declared after i.
DeclaredAfter(s, m, i) ==
    /\ sym[m].kind # "TransparentMember"
    /\ \E a, b \in DOMAIN Members(s) : a < b /\ Members(s)[a] = i /\ Members(s)[b] = m

\* C10: transparent enum values resolve.  Once the deferred members of a scope are
\* realized, a Local lookup of an enum value's name from the reference point of a
\* member added to the scope after the symbol whose declared type introduced the
\* enum returns Found, the EnumValue itself (the symbol the TransparentMember
\* wraps) and resultWasImported = FALSE, if no other member of the scope has that
\* name.
C10_EnumValuesResolve ==
    (LookupReturned /\ last.arg.nameKind = "Local")
    => LET S == last.arg.scope
           n == last.arg.name
       IN  \A i, m \in Range(Members(S)) :
              (/\ IntroducesEnumValue(i, n)
               /\ DeclaredAfter(S, m, i)
               /\ last.arg.referencePoint = LookupRefPointBefore(sym, m)
               /\ Cardinality({o \in Range(Members(S)) : sym[o].name = n}) = 1)
              => /\ scope[S].deferredMemberIndex = Null
                 /\ last.ret.resultKind = "Found"
                 /\ last.ret.symbol # Null
                 /\ sym[last.ret.symbol].kind = "EnumValue"
                 /\ sym[last.ret.symbol].name = n
                 /\ sym[last.ret.symbol].parentScope = sym[i].type
                 /\ last.ret.resultWasImported = FALSE

\* C10, its case: `enum { A } B;` was declared, then another member, and A was
\* looked up from the reference point of that member and resolved to the value.
C10_Witness ==
    /\ LookupReturned
    /\ last.arg.nameKind = "Local"
    /\ \E i, m \in Range(Members(last.arg.scope)) :
          /\ IntroducesEnumValue(i, last.arg.name)
          /\ DeclaredAfter(last.arg.scope, m, i)
          /\ last.arg.referencePoint = LookupRefPointBefore(sym, m)
    /\ last.ret.resultKind = "Found"
    /\ sym[last.ret.symbol].kind = "EnumValue"


\* ------------------------------------------------------ the diagnostic store
\* SIZE_MAX, the definitionIndex of a group without a definition-site occurrence
\* (scaled like UINT_MAX: it is above the size of every list of the model).
SIZE_MAX == 2^IndexBits - 1

\* A Diagnostic: code, location, the symbol it was issued for, and coalesceCount
\* (optional<size_t>, the empty sequence for nullopt).
Diagnostic(code, location, symbol) ==
    [code |-> code, location |-> location, symbol |-> symbol, coalesceCount |-> <<>>]

\* Diagnostic::isError(): the severity of the code.
IsError(diag) == diag.code = "E"

\* getInstanceOrDef(symbol): the nearest of the symbol and its ancestors that is a
\* definition or an instance, null if there is none.
RECURSIVE GetInstanceOrDef(_, _)
GetInstanceOrDef(symtab, symbol) ==
    IF symbol # Null /\ symtab[symbol].kind # "Definition"
                     /\ ~IsInstanceKind(symtab[symbol].kind)
    THEN GetInstanceOrDef(symtab, symtab[symbol].parentScope)
    ELSE symbol

\* The isSuppressed lambda of addDiag.
IsSuppressedNever(symtab, symbol) == FALSE

RECURSIVE IsSuppressed(_, _)
IsSuppressed(symtab, symbol) ==
    IF symbol = Null THEN FALSE
    ELSE IF symtab[symbol].kind = "GenerateBlock" /\ ~symtab[symbol].isInstantiated
    THEN TRUE
    ELSE IsSuppressed(symtab, symtab[symbol].parentScope)

\* The isInsideDef lambda of getSemanticDiagnostics.
RECURSIVE IsInsideDef(_, _)
IsInsideDef(symtab, symbol) ==
    IF symtab[symbol].kind = "Definition" THEN TRUE
    ELSE IF symtab[symbol].parentScope = Null THEN FALSE
    ELSE IsInsideDef(symtab, symtab[symbol].parentScope)

\* The diagnostics held by the map so far.
RECURSIVE OccurrenceCount(_, _)
OccurrenceCount(map, keys) ==
    IF keys = {} THEN 0
    ELSE LET k == CHOOSE k \in keys : TRUE
         IN  Len(map[k].diagList) + OccurrenceCount(map, keys \ {k})

\* The definitionIndex of a new group and of a group that got one more occurrence.
NewDefinitionIndex(symtab, inst) ==
    IF inst # Null /\ symtab[inst].kind = "Definition" THEN 0 ELSE SIZE_MAX

\* (the index kept at the first definition-site occurrence)
DefinitionIndexOfFirst(symtab, inst, entry) ==
    IF inst # Null /\ symtab[inst].kind = "Definition" /\ entry.definitionIndex = SIZE_MAX
    THEN Len(entry.diagList)
    ELSE entry.definitionIndex

DefinitionIndexAfterAppend(symtab, inst, entry) ==
    IF inst # Null /\ symtab[inst].kind = "Definition"
    THEN Len(entry.diagList)
    ELSE entry.definitionIndex

\* addDiag counting an error for each occurrence instead of each group.
AddDiagResultCountingEach(symtab, map, errors, diag) ==
    LET inst == GetInstanceOrDef(symtab, diag.symbol)
        key  == <<diag.code, diag.location>>
    IN  IF IsSuppressed(symtab, diag.symbol)
        THEN [diagMap |-> map, numErrors |-> errors, suppressed |-> TRUE]
        ELSE IF key \in DOMAIN map
        THEN [diagMap |->
                 [map EXCEPT ![key] =
                     [diagList |-> Append(@.diagList, diag),
                      definitionIndex |-> DefinitionIndexAfterAppend(symtab, inst, @)]],
              numErrors |-> IF IsError(diag) THEN errors + 1 ELSE errors,
              suppressed |-> FALSE]
        ELSE [diagMap |->
                 map @@ (key :> [diagList |-> <<diag>>,
                                 definitionIndex |-> NewDefinitionIndex(symtab, inst)]),
              numErrors |-> IF IsError(diag) THEN errors + 1 ELSE errors,
              suppressed |-> FALSE]

\* Compilation::addDiag(diag), on the map and the error count.
AddDiagResult(symtab, map, errors, diag) ==
    LET inst == GetInstanceOrDef(symtab, diag.symbol)
        key  == <<diag.code, diag.location>>
    IN  IF IsSuppressed(symtab, diag.symbol)
        THEN [diagMap |-> map, numErrors |-> errors, suppressed |-> TRUE]
        ELSE IF key \in DOMAIN map
        THEN [diagMap |->
                 [map EXCEPT ![key] =
                     [diagList |-> Append(@.diagList, diag),
                      definitionIndex |-> DefinitionIndexAfterAppend(symtab, inst, @)]],
              numErrors |-> errors, suppressed |-> FALSE]
        ELSE [diagMap |->
                 map @@ (key :> [diagList |-> <<diag>>,
                                 definitionIndex |-> NewDefinitionIndex(symtab, inst)]),
              numErrors |-> IF IsError(diag) THEN errors + 1 ELSE errors,
              suppressed |-> FALSE]

\* Compilation::addDiag(diag)
AddDiag(diag) ==
    /\ OccurrenceCount(diagMap, DOMAIN diagMap) < MaxDiags
    /\ \E r \in {AddDiagResult(sym, diagMap, numErrors, diag)} :
        /\ diagMap' = r.diagMap
        /\ numErrors' = r.numErrors
        /\ last' = Call("addDiag", diag, "", r.suppressed)
    /\ UNCHANGED <<CompilationState, registered, pair, added, errorLimit,
                   cachedSemanticDiagnostics, cachedAllDiagnostics, visits,
                   vectorTypeCache, frames, prevParse>>

\* (the option handed over as it is, 0 not standing for UINT32_MAX)
VisitorErrorLimitRaw == errorLimit

\* The limit the visitor is made with: options.errorLimit, 0 standing for none.
VisitorErrorLimit == IF errorLimit = 0 THEN UINT_MAX ELSE errorLimit

\* instanceCount[definition]++ on the visitor's map; operator[] of a missing key
\* reads 0.
InstanceCountOf(instanceCount, definition) ==
    IF definition \in DOMAIN instanceCount THEN instanceCount[definition] ELSE 0

Increment(instanceCount, definition) ==
    IF definition \in DOMAIN instanceCount
    THEN [instanceCount EXCEPT ![definition] = @ + 1]
    ELSE instanceCount @@ (definition :> 1)

\* DiagnosticVisitor: handle(symbol) for the kinds of the model, and visitDefault's
\* walk over the members of a scope.  Yields instanceCount.  The walk stops once
\* numErrors is above the limit, skips generate blocks that are not instantiated,
\* and counts the instances that are not inside a definition.
RECURSIVE Visit(_, _, _, _, _)
RECURSIVE VisitMembers(_, _, _, _, _)
Visit(h, stop, symbol, inDef, instanceCount) ==
    LET kind == h.sym[symbol].kind
    IN  IF stop THEN instanceCount
        ELSE IF kind = "GenerateBlock" /\ ~h.sym[symbol].isInstantiated THEN instanceCount
        ELSE IF symbol \notin DOMAIN h.scope THEN instanceCount
        ELSE VisitMembers(h, stop, Chain(h, symbol), inDef \/ kind = "Definition",
                          IF IsInstanceKind(kind) /\ ~inDef
                          THEN Increment(instanceCount, h.sym[symbol].definition)
                          ELSE instanceCount)

VisitMembers(h, stop, members, inDef, instanceCount) ==
    IF members = <<>> THEN instanceCount
    ELSE Bind(Visit(h, stop, Head(members), inDef, instanceCount),
              LAMBDA counted : VisitMembers(h, stop, Tail(members), inDef, counted))

\* The loop over the occurrences of a group without a definition-site occurrence:
\* the count of the occurrences in instances, and the last of them whose instance
\* is not at the top level.
\* (an instance at the top level taken like any other)
RECURSIVE ScanOccurrencesAnyLevel(_, _, _, _)
ScanOccurrencesAnyLevel(symtab, diagList, i, acc) ==
    IF i > Len(diagList) THEN acc
    ELSE LET symbol == GetInstanceOrDef(symtab, diagList[i].symbol)
         IN  IF symbol = Null \/ symtab[symbol].parentScope = Null
             THEN ScanOccurrencesAnyLevel(symtab, diagList, i + 1, acc)
             ELSE IF IsInsideDef(symtab, symbol)
             THEN ScanOccurrencesAnyLevel(symtab, diagList, i + 1, acc)
             ELSE ScanOccurrencesAnyLevel(symtab, diagList, i + 1,
                     [found |-> i, inst |-> symbol, count |-> acc.count + 1])

\* (the occurrences in top-level instances left out of the count)
RECURSIVE ScanOccurrencesCountingNested(_, _, _, _)
ScanOccurrencesCountingNested(symtab, diagList, i, acc) ==
    IF i > Len(diagList) THEN acc
    ELSE LET symbol == GetInstanceOrDef(symtab, diagList[i].symbol)
         IN  IF symbol = Null \/ symtab[symbol].parentScope = Null
             THEN ScanOccurrencesCountingNested(symtab, diagList, i + 1, acc)
             ELSE IF IsInsideDef(symtab, symbol)
             THEN ScanOccurrencesCountingNested(symtab, diagList, i + 1, acc)
             ELSE LET parent == symtab[symtab[symbol].parentScope]
                  IN  ScanOccurrencesCountingNested(symtab, diagList, i + 1,
                         IF parent.kind # "Root" /\ parent.kind # "CompilationUnit"
                         THEN [found |-> i, inst |-> symbol, count |-> acc.count + 1]
                         ELSE acc)

RECURSIVE ScanOccurrences(_, _, _, _)
ScanOccurrences(symtab, diagList, i, acc) ==
    IF i > Len(diagList) THEN acc
    ELSE LET symbol == GetInstanceOrDef(symtab, diagList[i].symbol)
         IN  IF symbol = Null \/ symtab[symbol].parentScope = Null
             THEN ScanOccurrences(symtab, diagList, i + 1, acc)
             ELSE IF IsInsideDef(symtab, symbol)
             THEN ScanOccurrences(symtab, diagList, i + 1, acc)
             ELSE LET parent == symtab[symtab[symbol].parentScope]
                  IN  ScanOccurrences(symtab, diagList, i + 1,
                         IF parent.kind # "Root" /\ parent.kind # "CompilationUnit"
                         THEN [found |-> i, inst |-> symbol, count |-> acc.count + 1]
                         ELSE [acc EXCEPT !.count = @ + 1])

\* Which diagnostic of a group is issued.
Issued(symtab, entry, instanceCount) ==
    IF entry.definitionIndex < Len(entry.diagList)
    THEN entry.diagList[entry.definitionIndex + 1]
    ELSE LET scan == ScanOccurrences(symtab, entry.diagList, 1,
                                     [found |-> Null, inst |-> Null, count |-> 0])
         IN  IF scan.found # Null
                /\ InstanceCountOf(instanceCount, symtab[scan.inst].definition) > scan.count
             THEN [entry.diagList[scan.found] EXCEPT
                      !.symbol = GetInstanceOrDef(symtab, scan.inst),
                      !.coalesceCount = <<scan.count>>]
             ELSE entry.diagList[1]

\* The loop of getSemanticDiagnostics over the diagnostic map, iterated in the
\* order `order`.
\* (the groups of warnings left out)
ResultsOfErrors(symtab, map, instanceCount, order) ==
    LET errors == SelectSeq(order, LAMBDA key : key[1] = "E")
    IN  [i \in DOMAIN errors |-> Issued(symtab, map[errors[i]], instanceCount)]

Results(symtab, map, instanceCount, order) ==
    [i \in DOMAIN order |-> Issued(symtab, map[order[i]], instanceCount)]

\* What getRoot() leaves, as values: the heap and the top-level instances.
GetRootOutcomes ==
    IF finalized
    THEN {[heap |-> Heap, topInstances |-> topInstances,
           rootCompilationUnits |-> rootCompilationUnits]}
    ELSE UNION { { [heap |-> r.heap, topInstances |-> r.topList,
                    rootCompilationUnits |-> compilationUnits] :
                   r \in {InstantiateAll(Heap, topDefinitions, <<>>)} } :
                 topDefinitions \in
                    UNION {SortedDefinitions(sym, TopDefinitions(sym, definitionMap,
                                                    globalInstantiations, order)) :
                           order \in Orderings(DOMAIN definitionMap)} }

\* What getParseDiagnostics() returns
ParseOutcomes ==
    IF cachedParseDiagnostics # <<>> THEN {cachedParseDiagnostics[1]}
    ELSE IF sourceManager # Null THEN SortedDiagnostics(TreeDiagnostics(syntaxTrees))
    ELSE {TreeDiagnostics(syntaxTrees)}

\* (the cache never read)
SemanticCacheMissAlways == FALSE

SemanticCacheHit == cachedSemanticDiagnostics # <<>>

\* What getSemanticDiagnostics() leaves and returns: the cached list, or getRoot,
\* one run of the visitor, the issued diagnostic of each group, sorted.
SemanticOutcomes ==
    IF SemanticCacheHit
    THEN {[heap |-> Heap, topInstances |-> topInstances,
           rootCompilationUnits |-> rootCompilationUnits, visits |-> visits,
           results |-> cachedSemanticDiagnostics[1]]}
    ELSE UNION { UNION { { [heap |-> g.heap, topInstances |-> g.topInstances,
                            rootCompilationUnits |-> g.rootCompilationUnits,
                            visits |-> visits + 1, results |-> results] :
                           results \in
                              (IF sourceManager # Null THEN SortedDiagnostics(unsorted)
                               ELSE {unsorted}) } :
                         unsorted \in
                            {Results(g.heap.sym, diagMap,
                                     Visit(g.heap, numErrors > VisitorErrorLimit, Root,
                                           FALSE, EmptyMap),
                                     order) :
                             order \in Orderings(DOMAIN diagMap)} } :
                 g \in GetRootOutcomes }

\* Compilation::getSemanticDiagnostics()
GetSemanticDiagnostics ==
    /\ finalized \/ ~finalizing
    /\ \E r \in SemanticOutcomes :
        /\ sym' = r.heap.sym
        /\ scope' = r.heap.scope
        /\ deferredData' = r.heap.deferredData
        /\ importData' = r.heap.importData
        /\ topInstances' = r.topInstances
        /\ rootCompilationUnits' = r.rootCompilationUnits
        /\ visits' = r.visits
        /\ cachedSemanticDiagnostics' = <<r.results>>
        /\ last' = Call("getSemanticDiagnostics",
                        IF SemanticCacheHit THEN "cached" ELSE "fresh", "", r.results)
    /\ finalized' = TRUE
    /\ UNCHANGED <<finalizing, sourceManager, compilationUnits, syntaxTrees,
                   definitionMap, packageMap, globalInstantiations, defaultNetTypeMap,
                   unconnectedDriveMap, timeScaleDirectiveMap, cachedParseDiagnostics,
                   registered, pair, added, diagMap, numErrors, errorLimit,
                   cachedAllDiagnostics, vectorTypeCache, frames, prevParse>>

\* The list getAllDiagnostics caches: the concatenation, sorted when there is a
\* source manager.
AllDiagnosticsUnsorted(diags) == {diags}

AllDiagnosticsSorted(diags) ==
    IF sourceManager # Null THEN SortedDiagnostics(diags) ELSE {diags}

\* Compilation::getAllDiagnostics()
GetAllDiagnostics ==
    IF cachedAllDiagnostics # <<>>
    THEN /\ last' = Call("getAllDiagnostics", "cached", "", cachedAllDiagnostics[1])
         /\ UNCHANGED <<CompilationState, registered, pair, added, DiagnosticState,
                        vectorTypeCache, frames, prevParse>>
    ELSE /\ finalized \/ ~finalizing
         /\ \E parse \in ParseOutcomes, r \in SemanticOutcomes :
              \E all \in AllDiagnosticsSorted(parse \o r.results) :
                /\ cachedParseDiagnostics' = <<parse>>
                /\ prevParse' = <<[trees |-> Len(syntaxTrees), list |-> parse]>>
                /\ sym' = r.heap.sym
                /\ scope' = r.heap.scope
                /\ deferredData' = r.heap.deferredData
                /\ importData' = r.heap.importData
                /\ topInstances' = r.topInstances
                /\ rootCompilationUnits' = r.rootCompilationUnits
                /\ visits' = r.visits
                /\ cachedSemanticDiagnostics' = <<r.results>>
                /\ cachedAllDiagnostics' = <<all>>
                /\ last' = Call("getAllDiagnostics", "fresh", "", all)
         /\ finalized' = TRUE
         /\ UNCHANGED <<finalizing, sourceManager, compilationUnits, syntaxTrees,
                        definitionMap, packageMap, globalInstantiations,
                        defaultNetTypeMap, unconnectedDriveMap, timeScaleDirectiveMap,
                        registered, pair, added, diagMap, numErrors, errorLimit,
                        vectorTypeCache, frames>>

\* ------------------------------------------------- a design with instances
\* The arena once a tree with two modules was added and the instantiations of its
\* unit were elaborated.  Handles, in the order of creation:
\*    2 the compilation unit        3 definition M        4 definition Top
\*    5 a variable of M (in the definition)
\*    6 an instance of M in the definition Top
\*    7, 8, 9 instances j1, j2, j3 of M in the unit (top-level instances)
\*   10 a generate block of j1 that is not instantiated, 11 a variable in it
\* and, in the larger design,
\*   12 instance j4 of M in the unit, 13 instance t of Top in the unit,
\*   14 instance i1 of M in t.
Instance(n, d) ==
    [BlankSymbol EXCEPT !.kind = "ModuleInstance", !.name = n, !.definition = d]

DesignSymbols ==
    << [symbol |-> [BlankSymbol EXCEPT !.kind = "CompilationUnit"], parent |-> Root],
       [symbol |-> [BlankSymbol EXCEPT !.kind = "Definition", !.name = "M",
                                       !.definitionKind = "Module"], parent |-> 2],
       [symbol |-> [BlankSymbol EXCEPT !.kind = "Definition", !.name = "Top",
                                       !.definitionKind = "Module"], parent |-> 2],
       [symbol |-> [BlankSymbol EXCEPT !.kind = "Variable", !.name = "v"], parent |-> 3],
       [symbol |-> Instance("k", 3), parent |-> 4],
       [symbol |-> Instance("j1", 3), parent |-> 2],
       [symbol |-> Instance("j2", 3), parent |-> 2],
       [symbol |-> Instance("j3", 3), parent |-> 2],
       [symbol |-> [BlankSymbol EXCEPT !.kind = "GenerateBlock", !.name = "g",
                                       !.isInstantiated = FALSE], parent |-> 7],
       [symbol |-> [BlankSymbol EXCEPT !.kind = "Variable", !.name = "w"], parent |-> 10] >>

LargerDesignSymbols ==
    DesignSymbols \o
    << [symbol |-> Instance("j4", 3), parent |-> 2],
       [symbol |-> Instance("t", 4), parent |-> 2],
       [symbol |-> Instance("i1", 3), parent |-> 13] >>

IsScopeKind(kind) ==
    kind \in {"Root", "CompilationUnit", "Definition", "GenerateBlock", "Package",
              "Subroutine"} \/ IsInstanceKind(kind)

\* emplace and addMember of each symbol of a design, in order.
RECURSIVE BuildDesign(_, _)
BuildDesign(h, symbols) ==
    IF symbols = <<>> THEN h
    ELSE LET s == Head(symbols)
         IN  Bind(AddMember(IF IsScopeKind(s.symbol.kind) THEN EmplaceScope(h, s.symbol)
                            ELSE Emplace(h, s.symbol),
                            s.parent, NextHandle(h)),
                  LAMBDA h1 : BuildDesign(h1, Tail(symbols)))

\* The tree the design came from, with the names it instantiates.
DesignTree(globals) ==
    [id |-> "t0", sourceManager |-> 1, metadata |-> <<>>,
     globalInstantiations |-> globals,
     members |-> << ModuleDecl("M", "Module", <<>>), ModuleDecl("Top", "Module", <<>>) >>,
     diagnostics |-> << [code |-> "ExpectedToken", location |-> 1] >>]

Designs ==
    { [heap |-> BuildDesign([sym |-> <<RootSymbol>>, scope |-> (Root :> BlankScope),
                             deferredData |-> <<>>, importData |-> <<>>], DesignSymbols),
       tree |-> DesignTree({"M"})],
      [heap |-> BuildDesign([sym |-> <<RootSymbol>>, scope |-> (Root :> BlankScope),
                             deferredData |-> <<>>, importData |-> <<>>],
                            LargerDesignSymbols),
       tree |-> DesignTree({"M", "Top"})] }

\* The values of options.errorLimit of the model: no limit, and a limit of one.
ErrorLimits == {0, 1}

\* The diagnostics handed to addDiag: an error at location 1 issued for the
\* definition M, for its variable, for the top-level instances, for the variable
\* of the generate block and for the nested instance; an error at location 2
\* issued for the instance inside a definition; a warning issued for the unit.
DiagInputs ==
    {Diagnostic("E", 1, s) : s \in {3, 5, 7, 8, 9, 11, 14} \cap DOMAIN sym}
        \cup {Diagnostic("E", 2, 6), Diagnostic("W", 1, 2)}

\* The state after the constructor, addSyntaxTree and the elaboration of a design.
Elaborated(design, limit) ==
        /\ sym = design.heap.sym
        /\ scope = design.heap.scope
        /\ deferredData = design.heap.deferredData
        /\ importData = design.heap.importData
        /\ finalized = FALSE
        /\ finalizing = FALSE
        /\ sourceManager = design.tree.sourceManager
        /\ compilationUnits = <<2>>
        /\ syntaxTrees = <<design.tree>>
        /\ definitionMap = (<<"M", Root>> :> 3) @@ (<<"Top", Root>> :> 4)
        /\ packageMap = EmptyMap
        /\ globalInstantiations = design.tree.globalInstantiations
        /\ defaultNetTypeMap = EmptyMap
        /\ unconnectedDriveMap = EmptyMap
        /\ timeScaleDirectiveMap = EmptyMap
        /\ cachedParseDiagnostics = <<>>
        /\ topInstances = <<>>
        /\ rootCompilationUnits = <<>>
        /\ registered = {3, 4}
        /\ pair = <<>>
        /\ added = <<>>
        /\ diagMap = EmptyMap
        /\ numErrors = 0
        /\ errorLimit = limit
        /\ cachedSemanticDiagnostics = <<>>
        /\ cachedAllDiagnostics = <<>>
        /\ visits = 0
        /\ vectorTypeCache = EmptyMap
        /\ frames = <<>>
        /\ prevParse = <<>>
        /\ last = Call("addSyntaxTree", design.tree.id, "", Null)

InitDiag == \E design \in Designs, limit \in ErrorLimits : Elaborated(design, limit)

NextDiag ==
    \/ \E diag \in DiagInputs : AddDiag(diag)
    \/ GetSemanticDiagnostics

\* Diagnostics come into the store, getSemanticDiagnostics renders them.
SpecDiag == InitDiag /\ [][NextDiag]_vars

\* The same with more trees coming in and the three getters, on the larger design
\* without an error limit: an error issued for the variable of the generate
\* block, for a top-level instance and for the instance inside a definition.
FewDiagInputs ==
    {Diagnostic("E", 1, 11), Diagnostic("E", 1, 7), Diagnostic("E", 2, 6)}

InitAllDiag ==
    \E design \in {d \in Designs : "Top" \in d.tree.globalInstantiations} :
        Elaborated(design, 0)

NextAllDiag ==
    \/ \E tree \in Trees : AddSyntaxTree(tree)
    \/ \E diag \in FewDiagInputs : AddDiag(diag)
    \/ GetParseDiagnostics
    \/ GetSemanticDiagnostics
    \/ GetAllDiagnostics

SpecAllDiag == InitAllDiag /\ [][NextAllDiag]_vars


\* ------------------------------------------------ claims on the diagnostics
\* The (code, location) pair of a diagnostic.
PairOf(diag) == <<diag.code, diag.location>>

\* The symbol and its ancestors.
RECURSIVE Ancestry(_)
Ancestry(s) == IF s = Null THEN {} ELSE {s} \cup Ancestry(sym[s].parentScope)

\* The symbol is, or is inside, a generate block that is not instantiated.
InUninstantiatedGenerate(s) ==
    \E a \in Ancestry(s) : sym[a].kind = "GenerateBlock" /\ ~sym[a].isInstantiated

\* The list has exactly one diagnostic for each of the pairs, and none for another.
OnePerPair(list, pairs) ==
    /\ \A i \in DOMAIN list : PairOf(list[i]) \in pairs
    /\ \A p \in pairs : Cardinality({i \in DOMAIN list : PairOf(list[i]) = p}) = 1

\* The pairs of the diagnostics recorded once a call of addDiag is made: the pair
\* of a diagnostic that is not suppressed joins them.
RecordsPair ==
    last'.op = "addDiag" =>
        DOMAIN diagMap' =
            DOMAIN diagMap \cup (IF InUninstantiatedGenerate(last'.arg.symbol) THEN {}
                                 ELSE {PairOf(last'.arg)})

DefinitionSites(list) ==
    {i \in DOMAIN list :
        LET inst == GetInstanceOrDef(sym, list[i].symbol)
        IN  inst # Null /\ sym[inst].kind = "Definition"}

Latest(S) == CHOOSE i \in S : \A j \in S : j <= i

\* getSemanticDiagnostics has just computed its list.
Rendered == last.op = "getSemanticDiagnostics" /\ last.arg = "fresh"

\* C12: a definition-site diagnostic trumps the per-instance ones: of a group with
\* an occurrence issued at a definition, getSemanticDiagnostics returns exactly
\* the occurrence added last at a definition, as it was recorded and without a
\* coalesce count, in whatever order the occurrences were added.
C12_DefinitionSiteTrumps ==
    Rendered =>
        \A k \in DOMAIN diagMap :
            LET list  == diagMap[k].diagList
                sites == DefinitionSites(list)
            IN  sites # {} =>
                    \A j \in DOMAIN last.ret :
                        PairOf(last.ret[j]) = k =>
                            /\ last.ret[j] = list[Latest(sites)]
                            /\ last.ret[j].coalesceCount = <<>>

\* C12, its case: a group got two occurrences at definitions and then one in an
\* instance, and the second of the three was returned.
C12_Witness ==
    /\ Rendered
    /\ \E k \in DOMAIN diagMap :
          LET list == diagMap[k].diagList
          IN  /\ DefinitionSites(list) = {1, 2}
              /\ Len(list) = 3
              /\ list[1] # list[2]
              /\ \E j \in DOMAIN last.ret : last.ret[j] = list[2]


\* The visitor's instanceCount of a definition, in the state the list was made in.
InstanceCountNow(d) ==
    InstanceCountOf(Visit(Heap, numErrors > VisitorErrorLimit, Root, FALSE, EmptyMap), d)

\* An instance at the top level: its parent is the root or a compilation unit.
TopLevel(i) ==
    /\ IsInstanceKind(sym[i].kind)
    /\ sym[i].parentScope # Null
    /\ sym[sym[i].parentScope].kind \in {"Root", "CompilationUnit"}

\* The group of the list holds one occurrence from inside each of three top-level
\* instances of definition d, and none from a definition.
ThreeTopLevelInstances(list, d) ==
    /\ Len(list) = 3
    /\ \A i \in DOMAIN list :
          LET inst == GetInstanceOrDef(sym, list[i].symbol)
          IN  inst # Null /\ TopLevel(inst) /\ sym[inst].definition = d
    /\ \A i, j \in DOMAIN list :
          i # j => GetInstanceOrDef(sym, list[i].symbol) #
                   GetInstanceOrDef(sym, list[j].symbol)

\* The diagnostics returned for a group.
ReturnedFor(k) == {j \in DOMAIN last.ret : PairOf(last.ret[j]) = k}

\* C13 as claimed: of a diagnostic recorded once from inside each of three
\* instances of a module M, all at the top level, and never from M's definition,
\* getSemanticDiagnostics returns one diagnostic, which has coalesceCount = 3 if
\* and only if instanceCount[M] > 3 and is the plain diagnostic otherwise.
C13_TopLevelInstancesCoalesced ==
    Rendered =>
        \A k \in DOMAIN diagMap, d \in Definitions(sym) :
            ThreeTopLevelInstances(diagMap[k].diagList, d) =>
                /\ Cardinality(ReturnedFor(k)) = 1
                /\ \A j \in ReturnedFor(k) :
                      /\ last.ret[j].coalesceCount = <<3>> <=> InstanceCountNow(d) > 3
                      /\ last.ret[j].coalesceCount # <<3>>
                            => last.ret[j] \in Range(diagMap[k].diagList)

\* The occurrences of a group that the loop counts: their effective instance has a
\* parent and is not inside a definition; and those of them whose instance is not
\* at the top level.
Counted(list) ==
    {i \in DOMAIN list :
        LET inst == GetInstanceOrDef(sym, list[i].symbol)
        IN  /\ inst # Null
            /\ sym[inst].parentScope # Null
            /\ \A a \in Ancestry(inst) : sym[a].kind # "Definition"}

Nested(list) ==
    {i \in Counted(list) : ~TopLevel(GetInstanceOrDef(sym, list[i].symbol))}

\* C13 amended: of such a diagnostic getSemanticDiagnostics returns one
\* diagnostic, the first occurrence recorded, without a coalesce count, whatever
\* instanceCount[M] is.  A group without a definition-site occurrence gets a
\* coalesce count, the number of its counted occurrences, exactly when one of
\* them lies in an instance that is not at the top level and the instanceCount of
\* the definition of the last such instance is above that number.
C13_TopLevelInstancesNotCoalesced ==
    Rendered =>
        \A k \in DOMAIN diagMap :
            LET list == diagMap[k].diagList
            IN  /\ \A d \in Definitions(sym) :
                      ThreeTopLevelInstances(list, d) =>
                          /\ Cardinality(ReturnedFor(k)) = 1
                          /\ \A j \in ReturnedFor(k) : last.ret[j] = list[1]
                /\ DefinitionSites(list) = {} =>
                      \A j \in ReturnedFor(k) :
                          IF /\ Nested(list) # {}
                             /\ InstanceCountNow(
                                   sym[GetInstanceOrDef(sym,
                                          list[Latest(Nested(list))].symbol)].definition)
                                  > Cardinality(Counted(list))
                          THEN /\ last.ret[j].coalesceCount = <<Cardinality(Counted(list))>>
                               /\ last.ret[j].symbol =
                                      GetInstanceOrDef(sym, list[Latest(Nested(list))].symbol)
                          ELSE last.ret[j] = list[1]

\* C13, its case: three of the five instances of M, all three at the top level,
\* gave the diagnostic, and the first occurrence was returned as it is.
C13_Witness ==
    /\ Rendered
    /\ \E k \in DOMAIN diagMap, d \in Definitions(sym) :
          /\ ThreeTopLevelInstances(diagMap[k].diagList, d)
          /\ InstanceCountNow(d) > 3
          /\ \E j \in ReturnedFor(k) :
                last.ret[j] = diagMap[k].diagList[1] /\ last.ret[j].coalesceCount = <<>>


\* The diagnostics of a returned list that were issued for a symbol (those of the
\* parser have none).
Semantic(list) == {j \in DOMAIN list : "symbol" \in DOMAIN list[j]}

\* C14: a call of addDiag with a diagnostic whose symbol is, or lies inside, a
\* generate block that is not instantiated leaves the diagnostic map and numErrors
\* as they were, and no list that getSemanticDiagnostics or getAllDiagnostics
\* returns has a diagnostic of such a symbol.
C14_UninstantiatedGenerateSuppressed ==
    [][/\ (last'.op = "addDiag" /\ InUninstantiatedGenerate(last'.arg.symbol))
             => (diagMap' = diagMap /\ numErrors' = numErrors)
       /\ last'.op \in {"getSemanticDiagnostics", "getAllDiagnostics"}
             => \A j \in Semantic(last'.ret) :
                   ~InUninstantiatedGenerate(last'.ret[j].symbol)]_vars

\* C14, its case: the error of a variable inside the generate block was handed to
\* addDiag while the same error of an instance was in the map, and was dropped.
C14_Witness ==
    /\ last.op = "addDiag"
    /\ InUninstantiatedGenerate(last.arg.symbol)
    /\ IsError(last.arg)
    /\ PairOf(last.arg) \in DOMAIN diagMap
    /\ \A i \in DOMAIN diagMap[PairOf(last.arg)].diagList :
          diagMap[PairOf(last.arg)].diagList[i] # last.arg


\* C15: the visitor runs once per compilation, in the first call that needs the
\* semantic diagnostics; every call of getSemanticDiagnostics returns the list
\* that call cached, and a call that finds the list cached runs no visitor and
\* leaves the symbols as they are.
C15_SemanticDiagnosticsComputedOnce ==
    [][/\ cachedSemanticDiagnostics # <<>>
             => /\ cachedSemanticDiagnostics' = cachedSemanticDiagnostics
                /\ visits' = visits
                /\ sym' = sym
       /\ (cachedSemanticDiagnostics = <<>> /\ cachedSemanticDiagnostics' # <<>>)
             => visits' = visits + 1
       /\ last'.op = "getSemanticDiagnostics"
             => /\ last'.ret = cachedSemanticDiagnostics'[1]
                /\ visits' = 1]_vars

\* C15, its case: a second call returned the cached list although a diagnostic of
\* another group had been recorded since the first.
C15_Witness ==
    /\ last.op = "getSemanticDiagnostics"
    /\ last.arg = "cached"
    /\ visits = 1
    /\ last.ret # <<>>
    /\ \E k \in DOMAIN diagMap : \A j \in DOMAIN last.ret : PairOf(last.ret[j]) # k


\* The list holds the diagnostics of the two lists, each as often as they do, in
\* the order of the locations.
Occurrences(list, d) == Cardinality({i \in DOMAIN list : list[i] = d})

SortedConcatenation(all, parse, semantic) ==
    /\ \A d \in Range(all) \cup Range(parse) \cup Range(semantic) :
          Occurrences(all, d) = Occurrences(parse, d) + Occurrences(semantic, d)
    /\ \A i, j \in DOMAIN all : i < j => all[i].location <= all[j].location

\* C16: the list of all diagnostics is never stale.  Whenever it is cached, and
\* whenever getAllDiagnostics has just returned, it is the sorted concatenation
\* of what getParseDiagnostics and getSemanticDiagnostics return in that state:
\* the call that computes it or the semantic diagnostics finalizes the
\* compilation, and addSyntaxTree is rejected from then on, so that both lists
\* stay cached.
C16_AllDiagnosticsNeverStale ==
    /\ (cachedSemanticDiagnostics # <<>> \/ cachedAllDiagnostics # <<>>) => finalized
    /\ (finalized /\ last.op = "addSyntaxTree")
          => last.err = "The compilation has already been finalized"
    /\ cachedAllDiagnostics # <<>>
          => /\ cachedParseDiagnostics # <<>>
             /\ cachedSemanticDiagnostics # <<>>
             /\ \A parse \in ParseOutcomes, r \in SemanticOutcomes :
                   SortedConcatenation(cachedAllDiagnostics[1], parse, r.results)
    /\ last.op = "getAllDiagnostics" => last.ret = cachedAllDiagnostics[1]

\* C16, its case: getAllDiagnostics was called again and returned the cached
\* list, which holds the diagnostics of two trees and of the store, and not in
\* the order of the concatenation.
C16_Witness ==
    /\ last.op = "getAllDiagnostics"
    /\ Len(syntaxTrees) = 2
    /\ cachedSemanticDiagnostics[1] # <<>>
    /\ Len(last.ret) = Len(cachedParseDiagnostics[1]) + Len(cachedSemanticDiagnostics[1])
    /\ last.ret # cachedParseDiagnostics[1] \o cachedSemanticDiagnostics[1]
    /\ last.arg = "cached"


\* ------------------------------------------- claims on the parse diagnostics
IsPrefix(a, b) == Len(a) <= Len(b) /\ SubSeq(b, 1, Len(a)) = a

\* This step is the second getParseDiagnostics of the sequence addSyntaxTree,
\* getParseDiagnostics, addSyntaxTree, getParseDiagnostics: the list returned
\* before was made of all the trees but the last.
SecondParseList ==
    /\ last'.op = "getParseDiagnostics"
    /\ prevParse # <<>>
    /\ prevParse[1].trees >= 1
    /\ prevParse[1].trees = Len(syntaxTrees) - 1

\* C17 as claimed: the first of the two lists is a prefix of the second.
C17_FirstListIsPrefix ==
    [][SecondParseList => IsPrefix(prevParse[1].list, last'.ret)]_vars

\* C17 amended: the second list is in the order of the locations and holds the
\* diagnostics of the first list and those of the second tree, each as often as
\* they do; the first list is a prefix of it if every diagnostic of the second
\* tree is located after every diagnostic of the first list.
C17_SecondListHoldsFirst ==
    [][SecondParseList =>
         LET first  == prevParse[1].list
             second == syntaxTrees[Len(syntaxTrees)].diagnostics
         IN  /\ SortedConcatenation(last'.ret, first, second)
             /\ (\A i \in DOMAIN first, j \in DOMAIN second :
                    first[i].location < second[j].location)
                   => IsPrefix(first, last'.ret)]_vars

\* C17, its case: the second list was returned, and the diagnostic of the second
\* tree stands in it before the diagnostic of the first.
C17_Witness ==
    /\ last.op = "getParseDiagnostics"
    /\ last.arg = "fresh"
    /\ Len(syntaxTrees) = 2
    /\ syntaxTrees[1].diagnostics # <<>>
    /\ Len(last.ret) = 2
    /\ last.ret[1] = syntaxTrees[2].diagnostics[1]
    /\ last.ret[2] = syntaxTrees[1].diagnostics[1]
    /\ prevParse[1].trees = 2


\* ----------------------------------------------- claims on the definition map
\* The lexical-parent chain of a scope, the scope first and the root last.
RECURSIVE LexicalChain(_)
LexicalChain(s) ==
    IF s = Null THEN <<>>
    ELSE IF sym[s].kind = "Root" THEN <<s>>
    ELSE <<s>> \o LexicalChain(GetLexicalScope(sym, s))

\* The places of the chain whose scope has an entry for the name.
ChainHits(lookupName, chain) ==
    {i \in DOMAIN chain : <<lookupName, chain[i]>> \in DOMAIN definitionMap}

Nearest(S) == CHOOSE i \in S : \A j \in S : i <= j

\* The definitions declared in a compilation unit or in the root.
InUnit(d, u) == sym[d].parentScope = u /\ sym[u].kind = "CompilationUnit"

AtFileScope(d) ==
    sym[d].parentScope = Root \/ \E u \in Range(compilationUnits) : InUnit(d, u)

\* The definition is the one the map holds for its name under the root.
RegisteredUnderRoot(d) ==
    /\ <<sym[d].name, Root>> \in DOMAIN definitionMap
    /\ definitionMap[<<sym[d].name, Root>>] = d

\* C18: getDefinition(name, scope) returns the entry of the nearest scope of the
\* lexical-parent chain of `scope` that has one for the name, and null if none up
\* to the root has; no entry is under a compilation unit, the first definition of
\* a name declared in a compilation unit or in the root is registered under the
\* root, and a definition of one compilation unit that is registered is what a
\* lookup started in another compilation unit returns.
C18_NearestLexicalDefinition ==
    /\ \A key \in DOMAIN definitionMap : sym[key[2]].kind # "CompilationUnit"
    /\ \A d \in Definitions(sym) :
         /\ AtFileScope(d) => <<sym[d].name, Root>> \in DOMAIN definitionMap
         /\ (AtFileScope(d) /\ \A e \in Definitions(sym) :
                (AtFileScope(e) /\ sym[e].name = sym[d].name) => d <= e)
               => RegisteredUnderRoot(d)
    /\ last.op = "getDefinition" =>
         LET lookupName == last.arg[1]
             chain      == LexicalChain(last.arg[2])
             hits       == ChainHits(lookupName, chain)
         IN  /\ chain[Len(chain)] = Root
             /\ hits = {} => last.ret = Null
             /\ hits # {} =>
                  last.ret = definitionMap[<<lookupName, chain[Nearest(hits)]>>]
             /\ \A d \in Definitions(sym), u \in Range(compilationUnits) :
                  (/\ InUnit(d, u)
                   /\ RegisteredUnderRoot(d)
                   /\ sym[d].name = lookupName
                   /\ last.arg[2] \in Range(compilationUnits) \ {u})
                    => last.ret = d

\* C18, its case: two compilation units, a module declared in the first, and the
\* lookup of its name started in the second returned it.
C18_Witness ==
    /\ last.op = "getDefinition"
    /\ Len(compilationUnits) = 2
    /\ last.arg[2] = compilationUnits[2]
    /\ last.ret # Null
    /\ InUnit(last.ret, compilationUnits[1])


\* ------------------------------------------------- getRoot, a step at a time
\* getRoot runs code that can call back into the compilation
\* (ModuleInstanceSymbol::instantiate), so here it is taken in steps: the entry up
\* to the sort, one turn of the instantiation loop, and the exit.  `frames` holds
\* the getRoot calls in progress: what is left of topDefinitions, and topList.

\* ASSERT(cond) with cond false: the program fails and goes no further.
ProgramFailed ==
    last.err \in {"ASSERT(!finalizing)", "ASSERT(width > 0)", "ASSERT(ptr)"}

\* The condition ASSERT(!finalizing) fails on.
\* (the check left out)
ReentranceUnchecked == FALSE

Reentered == finalizing

\* getRoot from its first line to the sort of topDefinitions.
GetRootEnter ==
    /\ ~ProgramFailed
    /\ IF finalized
       THEN /\ last' = Call("getRoot", "finalized", "", Root)
            /\ UNCHANGED <<finalizing, frames>>
       ELSE IF Reentered
       THEN /\ last' = Call("getRoot", "reentered", "ASSERT(!finalizing)", Null)
            /\ UNCHANGED <<finalizing, frames>>
       ELSE /\ finalizing' = TRUE
            /\ \E order \in Orderings(DOMAIN definitionMap) :
                 \E topDefinitions \in
                       SortedDefinitions(sym, TopDefinitions(sym, definitionMap,
                                                             globalInstantiations, order)) :
                   frames' = Append(frames, [topDefinitions |-> topDefinitions,
                                             topList |-> <<>>])
            /\ UNCHANGED last
    /\ UNCHANGED <<sym, scope, deferredData, importData, finalized, sourceManager,
                   compilationUnits, syntaxTrees, definitionMap, packageMap,
                   globalInstantiations, defaultNetTypeMap, unconnectedDriveMap,
                   timeScaleDirectiveMap, cachedParseDiagnostics, topInstances,
                   rootCompilationUnits, registered, pair, added, DiagnosticState,
                   vectorTypeCache, prevParse>>

\* One turn of the loop over topDefinitions of the innermost getRoot.
GetRootInstantiate ==
    /\ ~ProgramFailed
    /\ frames # <<>>
    /\ frames[Len(frames)].topDefinitions # <<>>
    /\ LET frame    == frames[Len(frames)]
           instance == NextHandle(Heap)
           h1       == EmplaceScope(Heap, ModuleInstanceSymbol(sym, Head(frame.topDefinitions)))
           h2       == AddMember(h1, Root, instance)
       IN  /\ sym' = h2.sym
           /\ scope' = h2.scope
           /\ deferredData' = h2.deferredData
           /\ importData' = h2.importData
           /\ frames' = [frames EXCEPT ![Len(frames)] =
                            [topDefinitions |-> Tail(frame.topDefinitions),
                             topList |-> Append(frame.topList, instance)]]
    /\ UNCHANGED <<finalized, finalizing, sourceManager, compilationUnits,
                   syntaxTrees, definitionMap, packageMap, globalInstantiations,
                   defaultNetTypeMap, unconnectedDriveMap, timeScaleDirectiveMap,
                   cachedParseDiagnostics, topInstances, rootCompilationUnits,
                   registered, pair, added, DiagnosticState, vectorTypeCache,
                   prevParse, last>>

\* The last lines of the innermost getRoot, and the guard as the call returns.
GetRootExit ==
    /\ ~ProgramFailed
    /\ frames # <<>>
    /\ frames[Len(frames)].topDefinitions = <<>>
    /\ topInstances' = frames[Len(frames)].topList
    /\ rootCompilationUnits' = compilationUnits
    /\ finalized' = TRUE
    /\ finalizing' = FALSE
    /\ frames' = SubSeq(frames, 1, Len(frames) - 1)
    /\ last' = Call("getRoot", "fresh", "", Root)
    /\ UNCHANGED <<sym, scope, deferredData, importData, sourceManager,
                   compilationUnits, syntaxTrees, definitionMap, packageMap,
                   globalInstantiations, defaultNetTypeMap, unconnectedDriveMap,
                   timeScaleDirectiveMap, cachedParseDiagnostics, registered, pair,
                   added, DiagnosticState, vectorTypeCache, prevParse>>

NextFinalize ==
    \/ \E tree \in Trees : ~ProgramFailed /\ AddSyntaxTree(tree)
    \/ \E decl \in Decls, parent \in DefinitionParents :
          ~ProgramFailed /\ AddDefinition(decl, parent)
    \/ GetRootEnter
    \/ GetRootInstantiate
    \/ GetRootExit

\* Finalization with the calls made from within it.
SpecFinalize == InitCompilation /\ [][NextFinalize]_vars

\* ------------------------------------------------ claims on the finalization
Fresh == ~finalized /\ ~finalizing

Finalizing == ~finalized /\ finalizing

Finalized == finalized /\ ~finalizing

\* The root as a finished getRoot leaves it: the top-level instances are members
\* of the root, one for each definition that was top-level when getRoot began.
RootBuilt ==
    /\ frames = <<>>
    /\ rootCompilationUnits = compilationUnits
    /\ \A i \in DOMAIN topInstances :
         /\ sym[topInstances[i]].kind = "ModuleInstance"
         /\ sym[topInstances[i]].parentScope = Root

\* C19: the compilation is Fresh, Finalizing or Finalized, and goes from Fresh to
\* Finalizing to Finalized only; a getRoot call made while a finalization is in
\* progress fails on its assertion and returns nothing, so no two finalizations
\* are in progress at once; a getRoot call that returns leaves finalized true and
\* finalizing false with the root built; finalized never goes back to false.
C19_FinalizationStateMachine ==
    [][/\ Fresh' \/ Finalizing' \/ Finalized'
       /\ Fresh' => Fresh
       /\ Finalizing => ~Fresh'
       /\ Finalized => Finalized'
       /\ Len(frames') <= 1
       /\ finalizing' <=> frames' # <<>>
       /\ (finalizing /\ last' # last /\ last'.op = "getRoot" /\ frames' = frames)
             => (last'.err # "" /\ last'.ret = Null /\ ProgramFailed')
       /\ (last'.op = "getRoot" /\ last'.err = "")
             => (last'.ret = Root /\ Finalized' /\ RootBuilt')]_vars

\* C19, its case: getRoot was called from within a getRoot that had instantiated
\* a top-level definition and had not returned, and failed.
C19_Witness ==
    /\ last.op = "getRoot"
    /\ last.arg = "reentered"
    /\ ProgramFailed
    /\ Finalizing
    /\ Len(frames) = 1
    /\ frames[1].topList # <<>>


\* --------------------------------------------------- the vector type cache
\* a | b on unsigned integers
RECURSIVE BitOr(_, _)
BitOr(a, b) ==
    IF a = 0 THEN b
    ELSE IF b = 0 THEN a
    ELSE (IF a % 2 = 1 \/ b % 2 = 1 THEN 1 ELSE 0) + 2 * BitOr(a \div 2, b \div 2)

\* The key is a uint32_t: the width bits and the flag bits.
KeyBits == BITWIDTH_BITS + FlagBits

\* key = width; key |= uint32_t(flags.bits()) << SVInt::BITWIDTH_BITS
\* (the flags or-ed in without the shift)
TypeKeyWithoutShift(width, flags) == BitOr(width % 2^KeyBits, flags)

TypeKey(width, flags) ==
    BitOr(width % 2^KeyBits, (flags * 2^BITWIDTH_BITS) % 2^KeyBits)

\* scalarTypeTable as the constructor fills it: the six scalar types at the
\* indices their integral flags give (Signed 1, FourState 2, Reg 4), null
\* elsewhere.  The scalar types are no symbols of the arena of the model; their
\* handles are below it: bitType -1, logicType -2, regType -3, and the signed
\* ones -4, -5, -6.
ScalarTypeTable ==
    [i \in 0..7 |->
       CASE i = 0 -> -1 [] i = 1 -> -4
         [] i = 2 -> -2 [] i = 3 -> -5
         [] i = 6 -> -3 [] i = 7 -> -6
         [] OTHER -> Null]

\* emplace<PackedArrayType>(elementType, ConstantRange{ int32_t(width - 1), 0 })
PackedArrayType(elementType, width) ==
    [BlankSymbol EXCEPT !.kind = "PackedArrayType", !.type = elementType,
                        !.range = <<width - 1, 0>>]

\* The widths and flags handed to getType: none, the least, the greatest that
\* fits BITWIDTH_BITS and one that does not; no flag, Signed, Reg alone, and a
\* bit above the three that index the scalar types.
Widths == {0, 1, 2^BITWIDTH_BITS - 1, 2^BITWIDTH_BITS + 1}

Flags == {0, 1, 4, 2^(FlagBits - 1)}

\* Compilation::getType(width, flags), with getScalarType(flags) on a miss.
GetType(width, flags) ==
    LET key     == TypeKey(width, flags)
        arg     == <<width, flags>>
        element == ScalarTypeTable[flags % 8]
    IN  /\ ~ProgramFailed
        /\ IF ~(width > 0)
           THEN /\ last' = Call("getType", arg, "ASSERT(width > 0)", Null)
                /\ UNCHANGED <<sym, vectorTypeCache>>
           ELSE IF key \in DOMAIN vectorTypeCache
           THEN /\ last' = Call("getType", arg, "", vectorTypeCache[key])
                /\ UNCHANGED <<sym, vectorTypeCache>>
           ELSE IF element = Null
           THEN /\ last' = Call("getType", arg, "ASSERT(ptr)", Null)
                /\ UNCHANGED <<sym, vectorTypeCache>>
           ELSE /\ Cardinality(DOMAIN vectorTypeCache) < MaxOps
                /\ sym' = Append(sym, PackedArrayType(element, width))
                /\ vectorTypeCache' = vectorTypeCache @@ (key :> NextHandle(Heap))
                /\ last' = Call("getType", arg, "", NextHandle(Heap))
        /\ UNCHANGED <<scope, deferredData, importData, finalized, finalizing,
                       sourceManager, compilationUnits, syntaxTrees, definitionMap,
                       packageMap, globalInstantiations, defaultNetTypeMap,
                       unconnectedDriveMap, timeScaleDirectiveMap,
                       cachedParseDiagnostics, topInstances, rootCompilationUnits,
                       registered, pair, added, DiagnosticState, frames, prevParse>>

NextTypes == \E width \in Widths, flags \in Flags : GetType(width, flags)

\* The type registry: packed vector types are made on demand and kept.
SpecTypes == InitCompilation /\ [][NextTypes]_vars

\* ---------------------------------------------- claims on the type registry
\* The widths that fit BITWIDTH_BITS, and every flag value.
WidthInRange(width) == width \in 1..(2^BITWIDTH_BITS - 1)

AllFlags == 0..(2^FlagBits - 1)

\* The width a cached type was made for.
WidthOf(symtab, type) == symtab[type].range[1] + 1

\* Every type of the cache was made for a width that fits BITWIDTH_BITS.
CacheInRange ==
    \A k \in DOMAIN vectorTypeCache : WidthInRange(WidthOf(sym, vectorTypeCache[k]))

\* A getType call with a width that fits has returned.
Returned(call) ==
    call.op = "getType" /\ call.err = "" /\ WidthInRange(call.arg[1])

\* C20: with widths in 1 .. 2^BITWIDTH_BITS - 1, the key tells the width and the
\* flags apart from those of every other pair; a getType call returns the type
\* the cache holds for its key, which has the width and the scalar type of the
\* call; it leaves the types cached before as they were and adds at most one; two
\* calls in a row return the same type if their pairs are equal, the second
\* adding nothing, and different types if their pairs differ.
C20_VectorTypesInterned ==
    [][(CacheInRange /\ Returned(last'))
         => LET width == last'.arg[1]
                flags == last'.arg[2]
                key   == TypeKey(width, flags)
            IN  /\ \A w \in 1..(2^BITWIDTH_BITS - 1), f \in AllFlags :
                     <<w, f>> # <<width, flags>> => TypeKey(w, f) # key
                /\ key \in DOMAIN vectorTypeCache'
                /\ last'.ret = vectorTypeCache'[key]
                /\ WidthOf(sym', last'.ret) = width
                /\ sym'[last'.ret].type = ScalarTypeTable[flags % 8]
                /\ \A k \in DOMAIN vectorTypeCache :
                     k \in DOMAIN vectorTypeCache'
                        /\ vectorTypeCache'[k] = vectorTypeCache[k]
                /\ Cardinality(DOMAIN vectorTypeCache')
                      <= Cardinality(DOMAIN vectorTypeCache) + 1
                /\ \A j, k \in DOMAIN vectorTypeCache' :
                     j # k => vectorTypeCache'[j] # vectorTypeCache'[k]
                /\ Returned(last) =>
                     /\ last.arg = last'.arg =>
                          last'.ret = last.ret /\ vectorTypeCache' = vectorTypeCache
                     /\ last.arg # last'.arg => last'.ret # last.ret]_vars

\* C20, its case: two types are cached for the same width under different flags,
\* and the call that returned last found its type in the cache.
C20_Witness ==
    /\ Returned(last)
    /\ CacheInRange
    /\ Cardinality(DOMAIN vectorTypeCache) = 2
    /\ \A k \in DOMAIN vectorTypeCache :
         WidthOf(sym, vectorTypeCache[k]) = 2^BITWIDTH_BITS - 1
    /\ last.ret # Len(sym)


\* ------------------------------------------- claims on the phases of a lookup
\* The member of the scope of the lookup of `last` that is named as the lookup asks
\* and is visible to it, Null if there is none.
VisibleLocal ==
    IF NoVisibleLocal THEN Null ELSE Entry(last.arg.scope, last.arg.name)

\* The hits of the lookup of `last` among the wildcard imports of its scope.
ImportHits == Hits(last.arg.scope, last.arg.name, last.arg.referencePoint.index)

\* The lookup of `last` went on in the parent: the reference point was rewritten.
Climbed == last.ret.referencePoint # last.arg.referencePoint

\* What the lookup of `last` would return if it were started in the parent of its
\* scope, from just after that scope.
ResultOfParent ==
    ScopeLookup(Heap, packageMap, sym[last.arg.scope].parentScope, last.arg.name,
                [FreshResult EXCEPT
                    !.referencePoint = LookupRefPointAfter(sym, last.arg.scope)]).result

\* C21: the phases of a lookup in their order.  A visible local member of the name
\* is returned (unwrapped) with no import consulted and the parent not searched;
\* with none, a single hit among the visible wildcard imports is returned as
\* imported, the parent not searched; the lookup goes on in the parent only when
\* there is neither, and then returns what the parent gives from just after the
\* scope.  A local member at or after the reference point counts as none.
C21_PhasePrecedence ==
    LookupReturned
    => LET m == VisibleLocal
       IN  /\ m # Null
                => /\ last.ret.resultKind = "Found"
                   /\ last.ret.symbol = Unwrapped(m)
                   /\ last.ret.resultWasImported = (sym[m].kind = "ExplicitImport")
                   /\ last.ret.imports = <<>>
                   /\ ~Climbed
           /\ (m = Null /\ Len(ImportHits) = 1)
                => /\ last.ret.resultKind = "Found"
                   /\ last.ret.symbol = ImportHits[1]
                   /\ last.ret.resultWasImported
                   /\ ~Climbed
           /\ Climbed => (m = Null /\ ImportHits = <<>>)
           /\ (m = Null /\ ImportHits = <<>> /\ last.arg.scope # Root)
                => (Climbed /\ last.ret = ResultOfParent)

\* C21, its case: the scope has a member of the name at or after the reference
\* point and a wildcard import before it whose package holds the name, and the
\* lookup returned the member of the package.
C21_Witness ==
    /\ LookupReturned
    /\ Entry(last.arg.scope, last.arg.name) # Null
    /\ VisibleLocal = Null
    /\ Len(ImportHits) = 1
    /\ last.ret.resultKind = "Found"
    /\ last.ret.resultWasImported
    /\ sym[sym[last.ret.symbol].parentScope].kind = "Package"


\* ------------------------------------------- claims on climbing to the parent
\* The lookup of `last` ended in the name map of the parent of its scope, with
\* the entry m of that map.
FoundInParent(m) ==
    /\ last.ret.resultKind = "Found"
    /\ last.ret.imports = <<>>
    /\ last.ret.symbol = Unwrapped(m)
    /\ last.ret.referencePoint =
          [scope |-> sym[last.arg.scope].parentScope,
           index |-> sym[last.arg.scope].indexInScope + 1]

\* C22: climbing rewrites the reference point.  When a Local or Scoped lookup
\* started in a scope C goes on in the parent P of C, a member of P of the name
\* is found exactly when its index is at most the index of C, whatever the
\* reference point the lookup started with.
C22_ClimbUsesAfterChild ==
    (/\ LookupReturned
     /\ last.arg.nameKind \in {"Local", "Scoped"}
     /\ Climbed)
    => LET m == Entry(sym[last.arg.scope].parentScope, last.arg.name)
       IN  m # Null =>
              (FoundInParent(m)
                  <=> sym[m].indexInScope <= sym[last.arg.scope].indexInScope)

\* C22, its case: the lookup started in C at a reference point before every
\* member, went on in the parent, and found there C itself.
C22_Witness ==
    /\ LookupReturned
    /\ last.arg.nameKind = "Local"
    /\ last.arg.referencePoint.index = 0
    /\ Climbed
    /\ Entry(sym[last.arg.scope].parentScope, last.arg.name) = last.arg.scope
    /\ last.ret.symbol = last.arg.scope


\* ------------------------------------- claims on lookups of callable names
\* What a caller sees of a lookup's result.
Outcome(result) ==
    [resultKind |-> result.resultKind, symbol |-> result.symbol,
     resultWasImported |-> result.resultWasImported, imports |-> result.imports]

\* The lookup of `last` again, from the reference point of index `index`.
LookupFrom(index) ==
    ScopeLookup(Heap, packageMap, last.arg.scope, last.arg.name,
                [FreshResult EXCEPT
                    !.referencePoint = LookupRefPoint(last.arg.scope, index)])

\* The lookup of `last` from the reference point of index `index` has the outcome
\* the lookup of `last` had.
SameOutcomeFrom(index) ==
    /\ LookupFrom(index).fault = ""
    /\ Outcome(LookupFrom(index).result) = Outcome(last.ret)

\* The wildcard imports of the scope of the lookup of `last` that a reference
\* point of index `index` has before it.
ImportsBefore(index) ==
    {i \in Range(WildcardImports(last.arg.scope)) : sym[i].indexInScope < index}

\* C23 as stated: the outcome of a Callable lookup is the same for any two
\* initial reference points.
C23_CallableIgnoresReferencePoint ==
    (LookupReturned /\ last.arg.nameKind = "Callable")
    => \A index \in RefPointIndices : SameOutcomeFrom(index)

\* C23, amended: a Callable lookup returns a member of its scope of the name
\* from any reference point, and has the same outcome from any two reference
\* points that have the same wildcard imports of its scope before them; the
\* wildcard imports of the ancestors do not depend on the initial reference
\* point.
C23_CallableSeesImportsBeforeUse ==
    (LookupReturned /\ last.arg.nameKind = "Callable")
    => \A index \in RefPointIndices :
          (\/ Entry(last.arg.scope, last.arg.name) # Null
           \/ ImportsBefore(index) = ImportsBefore(last.arg.referencePoint.index))
          => SameOutcomeFrom(index)

\* C23, its case: a Callable lookup of a name that only a wildcard import of the
\* scope binds found it from after the import, and does not find it from before
\* the import.
C23_Witness ==
    /\ LookupReturned
    /\ last.arg.nameKind = "Callable"
    /\ Entry(last.arg.scope, last.arg.name) = Null
    /\ ImportHits # <<>>
    /\ last.ret.resultKind = "Found"
    /\ last.ret.resultWasImported
    /\ \E index \in RefPointIndices :
          /\ ImportsBefore(index) = {}
          /\ Outcome(LookupFrom(index).result) # Outcome(last.ret)


\* ------------------------------------------ claims on the members of a scope
\* The symbols Scope::insertMember has put into scope s: it gives a member its
\* parent and an index that is at least 1.
Inserted(s) == {m \in DOMAIN sym : sym[m].parentScope = s /\ sym[m].indexInScope # 0}

\* How many times symbol m is met on the sibling chain of scope s.
TimesInChain(s, m) == Cardinality({k \in DOMAIN Members(s) : Members(s)[k] = m})

\* The members inserted into scope s under name n.
InsertedAs(s, n) == {m \in Inserted(s) : sym[m].name = n}

\* C24 as stated: every named member inserted into a scope is the entry of the
\* name map of the scope for its name and is once in the sibling chain.
C24_EveryMemberIsItsEntry ==
    \A s \in DOMAIN scope : \A m \in Inserted(s) :
        sym[m].name # "" => (Entry(s, sym[m].name) = m /\ TimesInChain(s, m) = 1)

\* C24, amended: every member inserted into a scope is once in the sibling chain
\* of the scope; the name map of the scope has an entry for exactly the names of
\* its members, and the entry for a name is the first member inserted under it.
C24_FirstMemberIsTheEntry ==
    \A s \in DOMAIN scope :
        /\ \A m \in Inserted(s) : TimesInChain(s, m) = 1
        /\ \A k \in DOMAIN Members(s) : Members(s)[k] \in Inserted(s)
        /\ DOMAIN scope[s].nameMap = {sym[m].name : m \in Inserted(s)} \ {""}
        /\ \A n \in DOMAIN scope[s].nameMap :
              /\ scope[s].nameMap[n] \in InsertedAs(s, n)
              /\ \A m \in InsertedAs(s, n) : scope[s].nameMap[n] <= m

\* C24, its case: after a realization a scope holds a transparent member and
\* another member of the same name, and one of the two is not the entry.
C24_Witness ==
    \E s \in DOMAIN scope : \E m1, m2 \in Inserted(s) :
        /\ m1 # m2
        /\ sym[m1].name = sym[m2].name
        /\ sym[m1].kind = "TransparentMember"
        /\ Entry(s, sym[m1].name) = m2


\* ------------------------------------- claims on the indices along a chain
\* C25: along the sibling chain of every scope the indices never decrease, the
\* head of the chain is firstMember and its final element is lastMember.
C25_IndicesNeverDecrease ==
    \A s \in DOMAIN scope :
        LET chain == Members(s)
        IN  /\ \A k \in 1..(Len(chain) - 1) :
                  sym[chain[k]].indexInScope <= sym[chain[k + 1]].indexInScope
            /\ scope[s].firstMember = IF chain = <<>> THEN Null ELSE chain[1]
            /\ scope[s].lastMember = IF chain = <<>> THEN Null ELSE chain[Len(chain)]
            /\ chain # <<>> => sym[chain[Len(chain)]].nextInScope = Null

\* C25, its case: a realization has prepended a transparent member with a null
\* anchor, spliced another one between two members, and appended an instance at
\* the tail.
C25_Witness ==
    \E s \in DOMAIN scope :
        LET chain == Members(s)
        IN  /\ Len(chain) >= 5
            /\ sym[chain[1]].kind = "TransparentMember"
            /\ sym[chain[1]].indexInScope = 1
            /\ \E k \in 2..(Len(chain) - 1) :
                  /\ sym[chain[k]].kind = "TransparentMember"
                  /\ sym[chain[k]].indexInScope = sym[chain[k - 1]].indexInScope
            /\ sym[chain[Len(chain)]].kind = "ModuleInstance"
            /\ sym[chain[Len(chain)]].indexInScope
                   = sym[chain[Len(chain) - 1]].indexInScope + 1


\* ------------------------------------ claims on neighbours of equal index
\* The kinds of member that only Scope::addMember inserts: always after
\* lastMember, never by a splice between two members.
AddedByAddMember(m) ==
    sym[m].kind \in {"Variable", "Parameter", "Subroutine", "WildcardImport",
                     "ExplicitImport", "EnumValue", "CompilationUnit"}

\* The pairs of neighbours of the sibling chain of scope s.
Neighbours(s) ==
    {<<Members(s)[k], Members(s)[k + 1]>> : k \in 1..(Len(Members(s)) - 1)}

\* C26 as stated, for the second members that were not spliced: of two
\* neighbours (a, b) whose b was appended by addMember, a has the smaller index.
C26_StrictUnlessSpliced ==
    \A s \in DOMAIN scope : \A p \in Neighbours(s) :
        AddedByAddMember(p[2]) => sym[p[1]].indexInScope < sym[p[2]].indexInScope

\* C26, amended: two neighbours (a, b) have equal indices only when a
\* realization inserted one of them, b by a splice after a or a in front of b;
\* two neighbours that addMember appended have increasing indices.
C26_EqualOnlyAcrossRealized ==
    \A s \in DOMAIN scope : \A p \in Neighbours(s) :
        /\ sym[p[1]].indexInScope <= sym[p[2]].indexInScope
        /\ (AddedByAddMember(p[1]) /\ AddedByAddMember(p[2]))
              => sym[p[1]].indexInScope < sym[p[2]].indexInScope

\* C26, its case: a transparent member was prepended with a null anchor in front
\* of the variable that introduces its enum, which addMember had appended as the
\* first member: the two are neighbours of index 1.
C26_Witness ==
    \E s \in DOMAIN scope : \E p \in Neighbours(s) :
        /\ scope[s].firstMember = p[1]
        /\ sym[p[1]].kind = "TransparentMember"
        /\ sym[p[2]].kind = "Variable"
        /\ sym[p[2]].typeSyntax = "EnumType"
        /\ sym[p[1]].indexInScope = 1
        /\ sym[p[2]].indexInScope = 1


\* ------------------------------------------ claims on transparent members
\* The members of scope s that introduced an enum type whose values have been
\* made: positions in the sibling chain of s.
Introducers(s) ==
    {k \in DOMAIN Members(s) : sym[Members(s)[k]].type # Null}

\* The values of the enum type that the member at position k of the chain of
\* scope s introduced, in declaration order.
ValuesOf(s, k) == Chain(Heap, sym[Members(s)[k]].type)

\* Position j of the chain of scope s holds the transparent member of value v.
WrapsAt(s, j, v) ==
    /\ j \in DOMAIN Members(s)
    /\ sym[Members(s)[j]].kind = "TransparentMember"
    /\ sym[Members(s)[j]].wrapped = v

\* C27 as stated: the transparent members of the values of an enum stand in
\* declaration order directly after the member that introduced the enum.
C27_ValuesFollowIntroducer ==
    \A s \in DOMAIN scope : \A k \in Introducers(s) :
        \A i \in DOMAIN ValuesOf(s, k) : WrapsAt(s, k + i, ValuesOf(s, k)[i])

\* C27, amended: the transparent members of the values of an enum stand
\* together, in declaration order, directly before the member that introduced
\* the enum, and so before every member added after it.
C27_ValuesPrecedeIntroducer ==
    \A s \in DOMAIN scope : \A k \in Introducers(s) :
        \A i \in DOMAIN ValuesOf(s, k) :
            WrapsAt(s, k - Len(ValuesOf(s, k)) - 1 + i, ValuesOf(s, k)[i])

\* C27, its case: a scope holds a member, then the transparent members of the
\* two values of an enum, then the variable that introduced the enum.
C27_Witness ==
    \E s \in DOMAIN scope : \E k \in Introducers(s) :
        /\ Len(ValuesOf(s, k)) = 2
        /\ k = 4
        /\ sym[Members(s)[1]].kind # "TransparentMember"
        /\ WrapsAt(s, 2, ValuesOf(s, k)[1])
        /\ WrapsAt(s, 3, ValuesOf(s, k)[2])


\* ------------------------------- claims on the index of transparent members
\* The transparent members of scope s for the values of the enum that the member
\* at position k of its chain introduced.
WrappersOf(s, k) ==
    {m \in Range(Members(s)) :
        /\ sym[m].kind = "TransparentMember"
        /\ sym[m].wrapped \in Range(ValuesOf(s, k))}

\* C28 as stated: every transparent member for the values of an enum has the
\* index of the member that introduced the enum.
C28_IndexOfIntroducer ==
    \A s \in DOMAIN scope : \A k \in Introducers(s) : \A m \in WrappersOf(s, k) :
        sym[m].indexInScope = sym[Members(s)[k]].indexInScope

\* C28, amended: every transparent member for the values of an enum has the
\* index of the member that preceded the introducer of the enum when it was
\* added, which is one less than the index of the introducer; it has the index
\* of the introducer, 1, only when the introducer was added as the first member.
C28_IndexOfPrecedingMember ==
    \A s \in DOMAIN scope : \A k \in Introducers(s) : \A m \in WrappersOf(s, k) :
        sym[m].indexInScope =
            IF sym[Members(s)[k]].indexInScope = 1 THEN 1
            ELSE sym[Members(s)[k]].indexInScope - 1

\* C28, its case: the introducer of an enum of two values is not the first
\* member of its scope, and both transparent members have the index before its.
C28_Witness ==
    \E s \in DOMAIN scope : \E k \in Introducers(s) :
        /\ sym[Members(s)[k]].indexInScope = 2
        /\ Cardinality(WrappersOf(s, k)) = 2
        /\ \A m \in WrappersOf(s, k) : sym[m].indexInScope = 1


\* ----------------------------------------- claims on what a realization keeps
\* Member a of a scope is visible from before(b): its index is below that of b.
VisibleFrom(symtab, a, b) ==
    RefPointLess(LookupRefPointBefore(symtab, a), LookupRefPointBefore(symtab, b))

\* What a step leaves of the members that are in a scope before it: their
\* indices, their parents, the entries of the name maps and which member is
\* visible from before which.
MembersKept ==
    /\ \A s \in DOMAIN scope : \A m \in Inserted(s) :
          /\ sym'[m].indexInScope = sym[m].indexInScope
          /\ sym'[m].parentScope = sym[m].parentScope
          /\ sym'[m].name = sym[m].name
    /\ \A s \in DOMAIN scope : \A n \in DOMAIN scope[s].nameMap :
          /\ n \in DOMAIN scope'[s].nameMap
          /\ scope'[s].nameMap[n] = scope[s].nameMap[n]
    /\ \A s \in DOMAIN scope : \A a, b \in Inserted(s) :
          VisibleFrom(sym', a, b) <=> VisibleFrom(sym, a, b)

\* C29: no insertion and no realization changes the index, the parent or the
\* name-map binding of a member that is in a scope already, so between two
\* members that were there the answer to "is a visible from before(b)" stays.
C29_RealizationKeepsVisibility == [][MembersKept]_vars

\* C29, its case: a lookup has realized a scope and spliced a transparent member
\* between two members that were there.
C29_Witness ==
    /\ last.op = "lookup"
    /\ \E s \in DOMAIN scope : \E k \in 2..(Len(Members(s)) - 1) :
          /\ sym[Members(s)[k]].kind = "TransparentMember"
          /\ AddedByAddMember(Members(s)[k - 1])
          /\ AddedByAddMember(Members(s)[k + 1])
          /\ sym[Members(s)[k - 1]].indexInScope < sym[Members(s)[k + 1]].indexInScope


\* ------------------------------------------ claims on repeated realization
\* The entries of the pool of deferred data that no scope refers to: only
\* realizeDeferredMembers clears the index of a scope, so these are the entries
\* that have been realized.
RealizedEntries ==
    {i \in DOMAIN deferredData : \A s \in DOMAIN scope : scope[s].deferredMemberIndex # i}

\* The step realizes the deferred members of scope s.
RealizationOf(s) ==
    /\ scope[s].deferredMemberIndex # Null
    /\ scope'[s].deferredMemberIndex = Null

\* The transparent members that wrap symbol v.
Wrappers(symtab, v) ==
    {m \in DOMAIN symtab : symtab[m].kind = "TransparentMember" /\ symtab[m].wrapped = v}

\* Of the scopes of the model the compilation unit alone gets deferred data, so
\* every entry of the pool was made for it.
OnlyUnitDefers == \A s \in DOMAIN scope : s # Unit => scope[s].deferredMemberIndex = Null

\* C30 as stated: a scope is realized at most one time, also when members or
\* deferred syntax are added after a lookup has realized it.
C30_RealizedAtMostOnce ==
    [][RealizationOf(Unit) => RealizedEntries = {}]_vars

\* C30, amended: every entry of the deferred data is realized at most one time,
\* no enum value is wrapped twice, and a scope that has been realized is
\* realized again exactly for the entry queued for it since.
C30_EachEntryRealizedOnce ==
    [][/\ OnlyUnitDefers
       /\ RealizedEntries \subseteq RealizedEntries'
       /\ \A s \in DOMAIN scope :
             RealizationOf(s) =>
                /\ last'.op = "lookup"
                /\ deferredData' = deferredData
                /\ RealizedEntries' = RealizedEntries \cup {scope[s].deferredMemberIndex}
       /\ \A v \in DOMAIN sym' : Cardinality(Wrappers(sym', v)) <= 1]_vars

\* C30, its case: the compilation unit was realized by a lookup, got an
\* enum-typed member after it, and was realized a second time by the next
\* lookup: two entries of the pool are realized, each value is wrapped once.
C30_Witness ==
    /\ last.op = "lookup"
    /\ Len(deferredData) = 2
    /\ RealizedEntries = {1, 2}
    /\ deferredData[1].transparentTypes # <<>>
    /\ deferredData[2].transparentTypes # <<>>
    /\ Cardinality({m \in Range(Members(Unit)) : sym[m].kind = "TransparentMember"}) >= 2



\* ----------------------------------- realizeDeferredMembers, a step at a time
\* realizeDeferredMembers runs code that can look names up in the scope it is
\* realizing (LazyType::get, InstanceSymbol::fromSyntax), so here it is taken in
\* steps: the entry, one turn of the loop over the transparent types, one turn of
\* the loop over the queued members, and the return.  `frames` holds the
\* realizations in progress: the scope and what is left of the copy of its
\* deferred data.

\* A call that reaches ensureMembers of a scope s that has deferred data: the
\* first three lines of realizeDeferredMembers, without clearing the index.
RealizeEnterKeepingIndex(s) ==
    /\ scope[s].deferredMemberIndex # Null
    /\ LET data == deferredData[scope[s].deferredMemberIndex]
       IN  frames' = Append(frames,
                            [scope |-> s,
                             transparentTypes |-> data.transparentTypes,
                             members |-> IF data.statement # Null THEN <<>>
                                         ELSE data.members])
    /\ UNCHANGED scope
    /\ UNCHANGED <<sym, deferredData, importData, finalized, finalizing, sourceManager,
                   compilationUnits, syntaxTrees, definitionMap, packageMap,
                   globalInstantiations, defaultNetTypeMap, unconnectedDriveMap,
                   timeScaleDirectiveMap, cachedParseDiagnostics, topInstances,
                   rootCompilationUnits, registered, pair, added, DiagnosticState,
                   vectorTypeCache, prevParse, last>>

\* A call that reaches ensureMembers of a scope s that has deferred data, from
\* outside or from inside a realization: the first three lines of
\* realizeDeferredMembers.  The data is copied and the index is cleared.
RealizeEnter(s) ==
    /\ scope[s].deferredMemberIndex # Null
    /\ LET data == deferredData[scope[s].deferredMemberIndex]
       IN  frames' = Append(frames,
                            [scope |-> s,
                             transparentTypes |-> data.transparentTypes,
                             members |-> IF data.statement # Null THEN <<>>
                                         ELSE data.members])
    /\ scope' = [scope EXCEPT ![s].deferredMemberIndex = Null]
    /\ UNCHANGED <<sym, deferredData, importData, finalized, finalizing, sourceManager,
                   compilationUnits, syntaxTrees, definitionMap, packageMap,
                   globalInstantiations, defaultNetTypeMap, unconnectedDriveMap,
                   timeScaleDirectiveMap, cachedParseDiagnostics, topInstances,
                   rootCompilationUnits, registered, pair, added, DiagnosticState,
                   vectorTypeCache, prevParse, last>>

\* One turn of the loop over the transparent types of the innermost realization.
RealizeTransparentType ==
    /\ frames # <<>>
    /\ frames[Len(frames)].transparentTypes # <<>>
    /\ LET frame == frames[Len(frames)]
       IN  /\ \E h \in {RealizeTransparentTypes(Heap, frame.scope,
                                                <<Head(frame.transparentTypes)>>)} :
                 /\ sym' = h.sym
                 /\ scope' = h.scope
                 /\ deferredData' = h.deferredData
                 /\ importData' = h.importData
           /\ frames' = [frames EXCEPT ![Len(frames)].transparentTypes = Tail(@)]
    /\ UNCHANGED <<finalized, finalizing, sourceManager, compilationUnits, syntaxTrees,
                   definitionMap, packageMap, globalInstantiations, defaultNetTypeMap,
                   unconnectedDriveMap, timeScaleDirectiveMap, cachedParseDiagnostics,
                   topInstances, rootCompilationUnits, registered, pair, added,
                   DiagnosticState, vectorTypeCache, prevParse, last>>

\* One turn of the loop over the queued members of the innermost realization.
RealizeMember ==
    /\ frames # <<>>
    /\ frames[Len(frames)].transparentTypes = <<>>
    /\ frames[Len(frames)].members # <<>>
    /\ LET frame == frames[Len(frames)]
       IN  /\ \E h \in {RealizeMembers(Heap, frame.scope, <<Head(frame.members)>>)} :
                 /\ sym' = h.sym
                 /\ scope' = h.scope
                 /\ deferredData' = h.deferredData
                 /\ importData' = h.importData
           /\ frames' = [frames EXCEPT ![Len(frames)].members = Tail(@)]
    /\ UNCHANGED <<finalized, finalizing, sourceManager, compilationUnits, syntaxTrees,
                   definitionMap, packageMap, globalInstantiations, defaultNetTypeMap,
                   unconnectedDriveMap, timeScaleDirectiveMap, cachedParseDiagnostics,
                   topInstances, rootCompilationUnits, registered, pair, added,
                   DiagnosticState, vectorTypeCache, prevParse, last>>

\* The return of the innermost realization.
RealizeExit ==
    /\ frames # <<>>
    /\ frames[Len(frames)].transparentTypes = <<>>
    /\ frames[Len(frames)].members = <<>>
    /\ frames' = SubSeq(frames, 1, Len(frames) - 1)
    /\ last' = Call("realizeDeferredMembers", frames[Len(frames)].scope, "", Null)
    /\ UNCHANGED <<sym, scope, deferredData, importData, finalized, finalizing,
                   sourceManager, compilationUnits, syntaxTrees, definitionMap,
                   packageMap, globalInstantiations, defaultNetTypeMap,
                   unconnectedDriveMap, timeScaleDirectiveMap, cachedParseDiagnostics,
                   topInstances, rootCompilationUnits, registered, pair, added,
                   DiagnosticState, vectorTypeCache, prevParse>>

\* A lookup made from inside a realization in a scope s that has no deferred data
\* (any more): ensureMembers does nothing and the lookup sees the members made
\* so far.
NestedLookup(s, searchName) ==
    /\ frames # <<>>
    /\ \A c \in ParentChain(s) : scope[c].deferredMemberIndex = Null
    /\ \E r \in {ScopeLookup(Heap, packageMap, s, searchName,
                             [LookupResultClear EXCEPT
                                 !.referencePoint = LookupRefPoint(s, UINT_MAX)])} :
          /\ r.fault = ""
          /\ last' = Call("lookup", LookupArg(s, searchName, "Local", UINT_MAX), "",
                          r.result)
    /\ UNCHANGED <<sym, scope, deferredData, importData, finalized, finalizing,
                   sourceManager, compilationUnits, syntaxTrees, definitionMap,
                   packageMap, globalInstantiations, defaultNetTypeMap,
                   unconnectedDriveMap, timeScaleDirectiveMap, cachedParseDiagnostics,
                   topInstances, rootCompilationUnits, registered, pair, added,
                   DiagnosticState, vectorTypeCache, frames, prevParse>>

\* The syntax handed to addMembers of the compilation unit here: that of
\* ScopeSyntax and an instantiation of two instances.
RealizeSyntax == ScopeSyntax \cup {InstantiationDecl(<<"A", "B">>)}

NextRealize ==
    \/ \E syntax \in RealizeSyntax : frames = <<>> /\ ScopeAddMembers(Unit, syntax)
    \/ \E s \in LookupScopes : RealizeEnter(s)
    \/ RealizeTransparentType
    \/ RealizeMember
    \/ RealizeExit
    \/ \E s \in LookupScopes, searchName \in Names : NestedLookup(s, searchName)

\* Additions to the compilation unit and lookups, with the lookups made from
\* within a realization.
SpecRealize == InitScope /\ [][NextRealize]_vars


\* --------------------------------------------- claims on re-entry
\* The deferred data of scope s that is still to be elaborated: what the entry
\* of the pool holds, if the scope has one, and what is left in the realizations
\* of s in progress.
RECURSIVE PendingOfFrames(_, _)
PendingOfFrames(s, k) ==
    IF k = 0 THEN [transparentTypes |-> <<>>, members |-> <<>>]
    ELSE LET rest == PendingOfFrames(s, k - 1)
         IN  IF frames[k].scope # s THEN rest
             ELSE [transparentTypes |-> rest.transparentTypes \o frames[k].transparentTypes,
                   members |-> rest.members \o frames[k].members]

Pending(s) ==
    LET inFrames == PendingOfFrames(s, Len(frames))
        index    == scope[s].deferredMemberIndex
    IN  IF index = Null THEN inFrames
        ELSE [transparentTypes |-> inFrames.transparentTypes
                                       \o deferredData[index].transparentTypes,
              members |-> inFrames.members \o deferredData[index].members]

\* How many times the transparent type of member m of scope s is still to be
\* elaborated, and how many times it has been: the number of transparent
\* members made for each of its values.
TimesPending(s, m) ==
    Cardinality({k \in DOMAIN Pending(s).transparentTypes :
                    Pending(s).transparentTypes[k].type = m})

TimesElaborated(m) ==
    IF sym[m].type = Null THEN {0}
    ELSE {Cardinality(Wrappers(sym, v)) : v \in Range(Chain(Heap, sym[m].type))}

\* The members of scope s whose declared type is an enum.
EnumTyped(s) ==
    {m \in Inserted(s) : HasLazyType(sym[m].kind) /\ sym[m].typeSyntax = "EnumType"}

\* The instances a syntax node handed to addMembers asks for.
RECURSIVE InstancesAskedFor(_)
InstancesAskedFor(syntax) ==
    CASE syntax.kind = "HierarchyInstantiation" -> Len(syntax.instances)
      [] syntax.kind = "GenerateBlock" ->
             LET sum[i \in 0..Len(syntax.members)] ==
                     IF i = 0 THEN 0 ELSE sum[i - 1] + InstancesAskedFor(syntax.members[i])
             IN  sum[Len(syntax.members)]
      [] OTHER -> 0

\* The instances asked for in scope s so far, those still to be made, those made.
InstancesQueued(s) ==
    LET sum[i \in 0..Len(added)] ==
            IF i = 0 THEN 0
            ELSE sum[i - 1] + (IF added[i].scope = s THEN InstancesAskedFor(added[i].syntax) ELSE 0)
    IN  sum[Len(added)]

InstancesPending(s) ==
    LET members == Pending(s).members
        sum[i \in 0..Len(members)] ==
            IF i = 0 THEN 0 ELSE sum[i - 1] + Len(members[i].node.instances)
    IN  sum[Len(members)]

InstancesMade(s) == Cardinality({m \in Inserted(s) : sym[m].kind = "ModuleInstance"})

\* No scope is being realized from inside its own realization.
NoNestedRealization ==
    \A i, j \in DOMAIN frames : i # j => frames[i].scope # frames[j].scope

\* C31: realization is safe against re-entry.  A lookup made in a scope from
\* inside the elaboration of its deferred members starts no second realization
\* of the scope, and at every point of every interleaving of additions, lookups
\* and steps of a realization each registered transparent type and each queued
\* instantiation of a scope is either still to be elaborated, once, or has been
\* elaborated, once: none is elaborated twice, none is lost.
C31_RealizationIsReentrant ==
    /\ NoNestedRealization
    /\ \A s \in DOMAIN scope :
          /\ \A m \in EnumTyped(s) :
                \/ TimesPending(s, m) = 1 /\ TimesElaborated(m) = {0}
                \/ TimesPending(s, m) = 0 /\ TimesElaborated(m) = {1}
          /\ InstancesMade(s) + InstancesPending(s) = InstancesQueued(s)
          /\ (frames = <<>> /\ scope[s].deferredMemberIndex = Null)
                => /\ \A m \in EnumTyped(s) : TimesElaborated(m) = {1}
                   /\ InstancesMade(s) = InstancesQueued(s)

\* C31, its case: a realization of a scope has made the transparent member of an
\* enum value, has an instantiation still to elaborate, and a lookup made in
\* that scope from inside it has found the value without a second realization.
C31_Witness ==
    /\ Len(frames) = 1
    /\ frames[1].members # <<>>
    /\ last.op = "lookup"
    /\ last.arg.scope = frames[1].scope
    /\ scope[frames[1].scope].deferredMemberIndex = Null
    /\ last.ret.resultKind = "Found"
    /\ sym[last.ret.symbol].kind = "EnumValue"
    /\ InstancesPending(frames[1].scope) > 0


\* ------------------------------- claims on the order of realized members
\* The instances of scope s.  Symbols get their handles in the order they are
\* made, and the queued items are elaborated in queueing order, the instances of
\* one instantiation in the order it produces them: of two instances the one
\* with the smaller handle is that of the earlier-queued item, or the earlier
\* one of the same item.
InstancesIn(s) == {m \in Inserted(s) : sym[m].kind = "ModuleInstance"}

\* The place of member m in the sibling chain of scope s.
PlaceOf(s, m) == CHOOSE k \in DOMAIN Members(s) : Members(s)[k] = m

\* C32: realized deferred members keep their queueing order.  In the sibling
\* chain of a scope the instances elaborated from an earlier-queued item stand
\* before those of a later-queued one, also when both were queued with the same
\* insertion point, and the instances of one instantiation stand in the order
\* they were produced in.
C32_QueueingOrderKept ==
    \A s \in DOMAIN scope : \A i1, i2 \in InstancesIn(s) :
        i1 < i2 => PlaceOf(s, i1) < PlaceOf(s, i2)

\* C32, its case: an instantiation of two instances, a member, and a second
\* instantiation were added to a scope and realized: the two instances of the
\* first stand in their order before the member, the instance of the second
\* after it.
C32_Witness ==
    /\ frames = <<>>
    /\ \E s \in DOMAIN scope :
          /\ scope[s].deferredMemberIndex = Null
          /\ Cardinality(InstancesIn(s)) = 3
          /\ \A i1, i2 \in InstancesIn(s) : i1 < i2 => PlaceOf(s, i1) < PlaceOf(s, i2)
          /\ \E m \in Inserted(s) :
                /\ AddedByAddMember(m)
                /\ \E i1, i2 \in InstancesIn(s) :
                      PlaceOf(s, i1) < PlaceOf(s, m) /\ PlaceOf(s, m) < PlaceOf(s, i2)


\* ------------------------------------- claims on the coalescing of a group
\* The preferred occurrence of a group: the last counted one whose effective
\* instance is not at the top level; and that instance.
Preferred(list) == Latest(Nested(list))

PreferredInstance(list) == GetInstanceOrDef(sym, list[Preferred(list)].symbol)

ErrorGroups(map) == {k \in DOMAIN map : IsError(map[k].diagList[1])}

\* An addDiag that opens a group for an error: not suppressed, no group yet at
\* its code and location.
OpensErrorGroup(diag) ==
    /\ ~IsSuppressed(sym, diag.symbol)
    /\ <<diag.code, diag.location>> \notin DOMAIN diagMap
    /\ IsError(diag)

\* C34: numErrors is the number of groups of the diagnostic map whose diagnostic
\* is an error, in every state, and a step of addDiag that appends to a group,
\* adds a diagnostic that is not an error, or is suppressed leaves numErrors as
\* it is, the others adding one.
C34_ErrorCountBookkeeping ==
    [][ /\ numErrors = Cardinality(ErrorGroups(diagMap))
        /\ numErrors' = Cardinality(ErrorGroups(diagMap'))
        /\ \A diag \in DiagInputs :
              AddDiag(diag) =>
                 numErrors' = IF OpensErrorGroup(diag) THEN numErrors + 1 ELSE numErrors
      ]_vars

\* Two groups of errors hold three occurrences: the last call appended an error
\* to a group and the count stayed at two.
C34_Witness ==
    /\ numErrors = 2
    /\ Cardinality(DOMAIN diagMap) = 2
    /\ OccurrenceCount(diagMap, DOMAIN diagMap) = 3
    /\ last.op = "addDiag"
    /\ last.ret = FALSE
    /\ <<last.arg.code, last.arg.location>> \in DOMAIN diagMap
    /\ Len(diagMap[<<last.arg.code, last.arg.location>>].diagList) = 2


\* ---------------------------------------------------------------- the visitor, a node at a time
\* getSemanticDiagnostics() with the walk of the DiagnosticVisitor taken a node
\* at a time.  The frame of the walk holds the fields of the visitor
\* (instanceCount, errorLimit), the nodes still to be handled, each with the inDef
\* in effect for it, and as history the nodes whose lazy fields were forced and
\* the nodes whose handler returned on the error limit.  numErrors is read from
\* the compilation at each node: the visitor holds a reference to it.

\* The diagnostics forcing the lazy fields of a node can issue.
LazyLocations == {2, 3}

LazyDiagInputs(node) == {Diagnostic("E", location, node) : location \in LazyLocations}

\* getSemanticDiagnostics() up to the start of the walk: the cache is empty, the
\* root is made, the visitor is constructed and handed the root.
VisitBegin ==
    /\ frames = <<>>
    /\ ~SemanticCacheHit
    /\ finalized \/ ~finalizing
    /\ \E g \in GetRootOutcomes :
        /\ sym' = g.heap.sym
        /\ scope' = g.heap.scope
        /\ deferredData' = g.heap.deferredData
        /\ importData' = g.heap.importData
        /\ topInstances' = g.topInstances
        /\ rootCompilationUnits' = g.rootCompilationUnits
    /\ finalized' = TRUE
    /\ frames' = <<[pending |-> <<[symbol |-> Root, inDef |-> FALSE]>>,
                    instanceCount |-> EmptyMap,
                    errorLimit |-> VisitorErrorLimit,
                    forced |-> {}, returned |-> {}]>>
    /\ last' = Call("visit", Root, "", Null)
    /\ UNCHANGED <<finalizing, sourceManager, compilationUnits, syntaxTrees,
                   definitionMap, packageMap, globalInstantiations, defaultNetTypeMap,
                   unconnectedDriveMap, timeScaleDirectiveMap, cachedParseDiagnostics,
                   registered, pair, added, DiagnosticState, vectorTypeCache, prevParse>>

\* handle(symbol) of the next node.  A generate block that is not instantiated
\* returns at once; above the error limit every handler returns before anything
\* else; otherwise an instance outside a definition is counted, the lazy fields
\* are forced, which can issue a diagnostic, and visitDefault hands on the
\* members.
VisitNode ==
    /\ frames # <<>>
    /\ frames[1].pending # <<>>
    /\ LET f      == frames[1]
           node   == Head(f.pending).symbol
           inDef  == Head(f.pending).inDef
           kind   == sym[node].kind
           inside == inDef \/ kind = "Definition"
           members == IF node \in DOMAIN scope
                      THEN [i \in DOMAIN Members(node) |->
                               [symbol |-> Members(node)[i], inDef |-> inside]]
                      ELSE <<>>
       IN  IF kind = "GenerateBlock" /\ ~sym[node].isInstantiated
           THEN /\ frames' = <<[f EXCEPT !.pending = Tail(@)]>>
                /\ UNCHANGED <<diagMap, numErrors>>
           ELSE IF numErrors > f.errorLimit
           THEN /\ frames' = <<[f EXCEPT !.pending = Tail(@),
                                         !.returned = @ \cup {node}]>>
                /\ UNCHANGED <<diagMap, numErrors>>
           ELSE /\ frames' =
                     <<[f EXCEPT !.pending = members \o Tail(@),
                                 !.instanceCount =
                                     IF IsInstanceKind(kind) /\ ~inDef
                                     THEN Increment(@, sym[node].definition)
                                     ELSE @,
                                 !.forced = @ \cup {node}]>>
                /\ \/ UNCHANGED <<diagMap, numErrors>>
                   \/ \E diag \in LazyDiagInputs(node) :
                        /\ OccurrenceCount(diagMap, DOMAIN diagMap) < MaxDiags
                        /\ \E r \in {AddDiagResult(sym, diagMap, numErrors, diag)} :
                             /\ diagMap' = r.diagMap
                             /\ numErrors' = r.numErrors
    /\ UNCHANGED <<CompilationState, registered, pair, added, errorLimit,
                   cachedSemanticDiagnostics, cachedAllDiagnostics, visits,
                   vectorTypeCache, prevParse, last>>

\* getSemanticDiagnostics() after the walk: the issued diagnostic of each group,
\* with the instance counts of the visitor, sorted and cached.
VisitEnd ==
    /\ frames # <<>>
    /\ frames[1].pending = <<>>
    /\ \E order \in Orderings(DOMAIN diagMap) :
         \E results \in
               (IF sourceManager # Null
                THEN SortedDiagnostics(Results(sym, diagMap, frames[1].instanceCount, order))
                ELSE {Results(sym, diagMap, frames[1].instanceCount, order)}) :
            /\ cachedSemanticDiagnostics' = <<results>>
            /\ last' = Call("getSemanticDiagnostics", "fresh", "", results)
    /\ visits' = visits + 1
    /\ frames' = <<>>
    /\ UNCHANGED <<CompilationState, registered, pair, added, diagMap, numErrors,
                   errorLimit, cachedAllDiagnostics, vectorTypeCache, prevParse>>

NextVisit ==
    \/ \E diag \in FewDiagInputs : frames = <<>> /\ ~SemanticCacheHit /\ AddDiag(diag)
    \/ VisitBegin
    \/ VisitNode
    \/ VisitEnd

\* Diagnostics come in, then the visitor walks the design a node at a time, the
\* forcing of lazy fields issuing more of them on the way.
SpecVisit == InitDiag /\ [][NextVisit]_vars


\* ---------------------------------------------------------------- claims on the error limit
\* A step of the walk that handles a node.
HandlesNode == frames # <<>> /\ frames[1].pending # <<>> /\ frames' # <<>>

\* The node the walk is about to handle, and what is left to handle after it.
NodeAtHand == Head(frames[1].pending).symbol

Remaining == Tail(frames[1].pending)

\* The instances counted by the visitor so far, over all definitions.
RECURSIVE CountedInstances(_, _)
CountedInstances(instanceCount, definitions) ==
    IF definitions = {} THEN 0
    ELSE LET d == CHOOSE d \in definitions : TRUE
         IN  instanceCount[d] + CountedInstances(instanceCount, definitions \ {d})

\* C35: once numErrors is above a limit that is not 0, each node the visitor
\* handles from then on returns with no lazy field forced, no instance counted,
\* no diagnostic issued and none of its members handed on, and numErrors never
\* goes down, so that the walk stays cancelled; with the limit 0 every node that
\* is not a generate block left uninstantiated has its lazy fields forced and its
\* members handed on, however many errors are recorded.
C35_ErrorLimitSoftCancel ==
    [][ /\ numErrors' >= numErrors
        /\ HandlesNode /\ errorLimit # 0 /\ numErrors > errorLimit =>
              /\ frames'[1].forced = frames[1].forced
              /\ frames'[1].instanceCount = frames[1].instanceCount
              /\ frames'[1].pending = Remaining
              /\ diagMap' = diagMap
              /\ numErrors' = numErrors
              /\ Heap' = Heap
        /\ HandlesNode /\ errorLimit = 0
                       /\ ~(sym[NodeAtHand].kind = "GenerateBlock"
                              /\ ~sym[NodeAtHand].isInstantiated) =>
              /\ NodeAtHand \in frames'[1].forced
              /\ frames'[1].returned = {}
              /\ NodeAtHand \in DOMAIN scope =>
                    /\ Len(frames'[1].pending) = Len(Members(NodeAtHand)) + Len(Remaining)
                    /\ \A i \in DOMAIN Members(NodeAtHand) :
                          frames'[1].pending[i].symbol = Members(NodeAtHand)[i]
      ]_vars

\* The limit 1 was passed in the middle of a walk, by an error the forcing of a
\* lazy field issued: an instance had been counted before, and an instance
\* handled after it returned uncounted.
C35_Witness ==
    /\ frames # <<>>
    /\ errorLimit = 1
    /\ numErrors > errorLimit
    /\ CountedInstances(frames[1].instanceCount, DOMAIN frames[1].instanceCount) = 1
    /\ \E i \in frames[1].forced : IsInstanceKind(sym[i].kind)
    /\ \E i \in frames[1].returned : IsInstanceKind(sym[i].kind) /\ TopLevel(i)

=============================================================================
